---- MODULE Spec2Model ----
(***************************************************************************)
(* Model of the pdf2markdown structure-inference pipeline: the document    *)
(* model (domain/models/document.py), the list detector                    *)
(* (domain/services/list_detector.py), the paragraph and heading           *)
(* detectors' document-level entry points and the orchestration in         *)
(* cli/main.py.                                                            *)
(*                                                                         *)
(* Text is a sequence of one-character strings, so that strip, split,      *)
(* substring tests and regular-expression prefixes are computed and not    *)
(* assumed.  Positions are integers (points); a comparison with 2.5*T is   *)
(* made on doubled values, which is exact for integer operands.            *)
(***************************************************************************)
EXTENDS Integers, Sequences, FiniteSets, TLC

\* ------------------------------------------------------------------ bounds
MaxLines == 3
MaxItems == 3

\* ------------------------------------------------------------ text helpers
\* With(x, F) is F(x) with x evaluated once, however often F uses it
With(x, F(_)) == CHOOSE out \in { F(v) : v \in { x } } : TRUE

IsSpace(c) == c \in {" ", "\n"}

IsBlank(s0) == With(s0, LAMBDA s : \A i \in 1..Len(s) : IsSpace(s[i]))

\* number of leading whitespace characters of s
LeadingSpaces(s0) ==
    With(s0, LAMBDA s :
        IF IsBlank(s) THEN Len(s)
        ELSE (CHOOSE i \in 1..Len(s) : ~IsSpace(s[i]) /\ \A j \in 1..(i-1) : IsSpace(s[j])) - 1)

\* number of trailing whitespace characters of s
TrailingSpaces(s0) ==
    With(s0, LAMBDA s :
        IF IsBlank(s) THEN Len(s)
        ELSE Len(s) - (CHOOSE i \in 1..Len(s) :
                          ~IsSpace(s[i]) /\ \A j \in (i+1)..Len(s) : IsSpace(s[j])))

LStrip(s0) == With(s0, LAMBDA s : SubSeq(s, LeadingSpaces(s) + 1, Len(s)))

RStrip(s0) == With(s0, LAMBDA s : SubSeq(s, 1, Len(s) - TrailingSpaces(s)))

Strip(s) == LStrip(RStrip(s))

\* s[from..] (1-based), empty when from is past the end
Drop(s0, n) == With(s0, LAMBDA s : SubSeq(s, n + 1, Len(s)))

StartsWith(s0, p0) ==
    With(s0, LAMBDA s : With(p0, LAMBDA p : Len(p) <= Len(s) /\ SubSeq(s, 1, Len(p)) = p))

\* Python's  p in s  on strings
Contains(s0, p0) ==
    With(s0, LAMBDA s : With(p0, LAMBDA p :
        \E i \in 0..(Len(s) - Len(p)) : SubSeq(s, i + 1, i + Len(p)) = p))

Min(a, b) == IF a < b THEN a ELSE b

Max(a, b) == IF a > b THEN a ELSE b

\* ------------------------------------------ str methods on character data
LowerAlphabet ==
    << "a", "b", "c", "d", "e", "f", "g", "h", "i", "j", "k", "l", "m", "n", "o", "p", "q", "r", "s", "t", "u", "v", "w", "x", "y", "z" >>

UpperAlphabet ==
    << "A", "B", "C", "D", "E", "F", "G", "H", "I", "J", "K", "L", "M", "N", "O", "P", "Q", "R", "S", "T", "U", "V", "W", "X", "Y", "Z" >>

LowerChars == { LowerAlphabet[i] : i \in 1..26 }
UpperChars == { UpperAlphabet[i] : i \in 1..26 }

\* c.islower(), c.isupper() for one character
IsLowerChar(c) == c \in LowerChars
IsUpperChar(c) == c \in UpperChars

AlphaIndex(c) == CHOOSE i \in 1..26 : LowerAlphabet[i] = c \/ UpperAlphabet[i] = c

ToLowerChar(c) == IF c \in UpperChars THEN LowerAlphabet[AlphaIndex(c)] ELSE c
ToUpperChar(c) == IF c \in LowerChars THEN UpperAlphabet[AlphaIndex(c)] ELSE c

\* s.lower(), s.upper()
ToLower(s0) == With(s0, LAMBDA s : [i \in 1..Len(s) |-> ToLowerChar(s[i])])
ToUpper(s0) == With(s0, LAMBDA s : [i \in 1..Len(s) |-> ToUpperChar(s[i])])

\* s.isupper(): some cased character and no lowercase one
IsUpperStr(s0) ==
    With(s0, LAMBDA s :
        /\ \E i \in 1..Len(s) : IsUpperChar(s[i])
        /\ \A i \in 1..Len(s) : ~IsLowerChar(s[i]))

\* s.istitle(): uppercase only after an uncased character, lowercase only
\* after a cased one, and some cased character
IsTitleStr(s0) ==
    With(s0, LAMBDA s :
        /\ \E i \in 1..Len(s) : IsUpperChar(s[i]) \/ IsLowerChar(s[i])
        /\ \A i \in 1..Len(s) :
             LET prevCased == i > 1 /\ (IsUpperChar(s[i-1]) \/ IsLowerChar(s[i-1]))
             IN  /\ IsUpperChar(s[i]) => ~prevCased
                 /\ IsLowerChar(s[i]) => prevCased)

\* length of the first whitespace-free run of t, which starts with one
FirstWordLen(t) ==
    LET ends == { i \in 1..Len(t) : IsSpace(t[i]) }
    IN  IF ends = {} THEN Len(t) ELSE (CHOOSE i \in ends : \A j \in ends : i <= j) - 1

\* s.split(): the maximal runs of non-whitespace characters
RECURSIVE Words(_)
Words(s) ==
    With(LStrip(s), LAMBDA t :
        IF t = <<>> THEN <<>>
        ELSE With(FirstWordLen(t), LAMBDA n : << SubSeq(t, 1, n) >> \o Words(Drop(t, n))))

EndsWith(s0, p0) ==
    With(s0, LAMBDA s : With(p0, LAMBDA p :
        Len(p) <= Len(s) /\ SubSeq(s, Len(s) - Len(p) + 1, Len(s)) = p))

TerminalPunctuation == {".", "!", "?", ":", ";"}

\* s.endswith(('.', '!', '?', ':', ';'))
EndsWithTerminal(s0) == With(s0, LAMBDA s : s # <<>> /\ s[Len(s)] \in TerminalPunctuation)

Abs(a) == IF a < 0 THEN -a ELSE a

\* ------------------------------------------- document.py: list value types
ORDERED == "ordered"
UNORDERED == "unordered"

ListMarker(t, sym, pre, suf) ==
    [marker_type |-> t, symbol |-> sym, prefix |-> pre, suffix |-> suf]

as_string(m) == m.prefix \o m.symbol \o m.suffix

\* Line; font_size is <<>> (None) or <<size>>.  Line(text, y, x, h) is the
\* four-argument construction, which leaves font_size at its default None.
LineF(text, y, x, h, fs) ==
    [text |-> text, y_position |-> y, x_position |-> x, height |-> h, font_size |-> fs]

Line(text, y, x, h) == LineF(text, y, x, h, <<>>)

\* ListItem.__post_init__: the constraints a constructed item satisfies
ListItemValid(content, level) == level >= 0 /\ level <= 3 /\ ~IsBlank(content)

ListItem(content, level, marker, ls) ==
    [content |-> content, level |-> level, marker |-> marker, lines |-> ls]

\* --------------------------------------------- list_detector.py: patterns
BulletChars == {"-", "*", "+"}
DigitChars == {"0", "1", "2", "3", "4", "5", "6", "7", "8", "9"}
LetterChars == LowerChars \cup UpperChars
SuffixChars == {".", ")"}
RomanNumerals ==
    { <<"i">>, <<"i", "i">>, <<"i", "i", "i">>, <<"i", "v">>, <<"v">>, <<"v", "i">>, <<"v", "i", "i">>, <<"v", "i", "i", "i">>, <<"i", "x">>, <<"x">>,
      <<"I">>, <<"I", "I">>, <<"I", "I", "I">>, <<"I", "V">>, <<"V">>, <<"V", "I">>, <<"V", "I", "I">>, <<"V", "I", "I", "I">>, <<"I", "X">>, <<"X">> }

\* length of the run of digits of s that starts at position p
RECURSIVE DigitRun(_, _)
DigitRun(s, p) == IF p <= Len(s) /\ s[p] \in DigitChars THEN 1 + DigitRun(s, p + 1) ELSE 0

\* ^(\s*)(marker)\s+(.*)$  for the bullet markers
MatchBullet(text) ==
    LET n == LeadingSpaces(text)
    IN  n + 2 <= Len(text) /\ text[n+1] \in BulletChars /\ IsSpace(text[n+2])

\* ^(\s*)(SYM)(\.|\))\s+(.*)$ : the symbol of length k at the line start
MatchSuffixed(text, k) ==
    LET n == LeadingSpaces(text)
    IN  k >= 1 /\ n + k + 2 <= Len(text)
        /\ text[n+k+1] \in SuffixChars /\ IsSpace(text[n+k+2])

MatchNumeric(text) == MatchSuffixed(text, DigitRun(text, LeadingSpaces(text) + 1))

MatchAlpha(text) ==
    LET n == LeadingSpaces(text)
    IN  n + 1 <= Len(text) /\ text[n+1] \in LetterChars /\ MatchSuffixed(text, 1)

RomanAt(text) ==
    LET n == LeadingSpaces(text)
    IN  { r \in RomanNumerals : StartsWith(Drop(text, n), r) /\ MatchSuffixed(text, Len(r)) }

\* ^(\s*)\((\d+|[a-zA-Z]|roman)\)\s+(.*)$ : lengths k of a symbol that matches
ParenAt(text) ==
    LET n == LeadingSpaces(text)
        isSym(k) == \/ (k >= 1 /\ DigitRun(text, n + 2) >= k
                        /\ \A j \in 1..k : text[n+1+j] \in DigitChars)
                    \/ (k = 1 /\ text[n+2] \in LetterChars)
                    \/ SubSeq(text, n + 2, n + 1 + k) \in RomanNumerals
    IN  { k \in 1..Len(text) :
            /\ n + k + 3 <= Len(text)
            /\ text[n+1] = "("
            /\ isSym(k)
            /\ text[n+k+2] = ")"
            /\ IsSpace(text[n+k+3]) }

\* detect_list_marker: <<>> for None, <<marker>> for a detected marker
detect_list_marker(line) ==
    LET text == line.text
        n == LeadingSpaces(text)
    IN  IF IsBlank(text) THEN <<>>
        ELSE IF MatchBullet(text)
            THEN << ListMarker(UNORDERED, <<text[n+1]>>, <<>>, <<" ">>) >>
        ELSE IF MatchNumeric(text)
            THEN << ListMarker(ORDERED, SubSeq(text, n + 1, n + DigitRun(text, n + 1)),
                               <<>>, <<text[n + DigitRun(text, n + 1) + 1], " ">>) >>
        ELSE IF MatchAlpha(text)
            THEN << ListMarker(ORDERED, <<text[n+1]>>, <<>>, <<text[n+2], " ">>) >>
        ELSE IF RomanAt(text) # {}
            THEN LET r == CHOOSE r \in RomanAt(text) : TRUE
                 IN << ListMarker(ORDERED, r, <<>>, <<text[n+Len(r)+1], " ">>) >>
        ELSE IF ParenAt(text) # {}
            THEN LET k == CHOOSE k \in ParenAt(text) : TRUE
                 IN << ListMarker(ORDERED, SubSeq(text, n + 2, n + 1 + k), <<"(">>, <<")", " ">>) >>
        ELSE <<>>

\* _extract_content_from_line: the text after the marker, stripped
extract_content_from_line(line, marker) ==
    LET text == Strip(line.text)
        head == marker.prefix \o marker.symbol \o RStrip(marker.suffix)
    IN  IF StartsWith(text, head)
        THEN Strip(Drop(text, Len(head)))
        ELSE IF StartsWith(text, as_string(marker))
             THEN Strip(Drop(text, Len(as_string(marker))))
             ELSE text

EmptyPlaceholder == <<"[", "e", "m", "p", "t", "y", "]">>


\* ------------------------------------------------ document.py: ListBlock
NoError == "none"
ValueError == "ValueError"

\* ListBlock(list_type=t): items empty, nested_lists empty.  nested_lists maps
\* a parent item index (0-based) to a ListBlock.
ListBlock(t) == [kind |-> "ListBlock", list_type |-> t, items |-> <<>>, nested_lists |-> <<>>]

\* add_item that appends before it validates
add_item_AppendThenValidate(blk, item) ==
    [block |-> [blk EXCEPT !.items = Append(@, item)],
     error |-> IF item.level = 0 /\ item.marker.marker_type # blk.list_type
               THEN ValueError ELSE NoError]

\* ListBlock.add_item: the block after the call and the error raised, if any
add_item(blk, item) ==
    IF item.level = 0 /\ item.marker.marker_type # blk.list_type
    THEN [block |-> blk, error |-> ValueError]
    ELSE [block |-> [blk EXCEPT !.items = Append(@, item)], error |-> NoError]

is_empty(blk) == Len(blk.items) = 0

\* ------------------------------------------ list_detector.py: the detector
\* ListDetector.__init__ default of continuation_indent_threshold
ContinuationIndentThreshold == 3

\* _calculate_nesting_level with the level-1 band ending at 2*T
calculate_nesting_level_Band2(line, base, T) ==
    IF base = <<>> THEN 0
    ELSE LET x_diff == line.x_position - base[1]
         IN  IF x_diff < T THEN 0
             ELSE IF x_diff < 2 * T THEN 1
             ELSE IF x_diff < T * 4 THEN 2
             ELSE 3

\* _calculate_nesting_level; base is <<>> (None) or <<x>>; T is the
\* indentation threshold.  x_diff < T*2.5 is compared on doubled values.
calculate_nesting_level(line, base, T) ==
    IF base = <<>> THEN 0
    ELSE LET x_diff == line.x_position - base[1]
         IN  IF x_diff < T THEN 0
             ELSE IF 2 * x_diff < 5 * T THEN 1
             ELSE IF x_diff < T * 4 THEN 2
             ELSE 3

\* _is_continuation_line
is_continuation_line(line, current_item) ==
    IF Len(current_item.lines) = 0 THEN FALSE
    ELSE LET first_line == current_item.lines[1]
             marker == detect_list_marker(first_line)
         IN  IF marker = <<>> THEN FALSE
             ELSE LET marker_length == Len(as_string(marker[1]))
                      expected_x_position == first_line.x_position + marker_length * 2
                      x_diff == Abs(line.x_position - expected_x_position)
                  IN  line.x_position > first_line.x_position
                      /\ x_diff <= ContinuationIndentThreshold * 3

\* level=min(level, self.max_nesting_level) (line 176)
cap_level_Uncapped(level, max_level) == level

cap_level(level, max_level) == Min(level, max_level)

\* The loop state of detect_list_items_from_lines.  current is <<>> (None) or
\* <<item>>; raw / current_raw record the level computed before the cap, in
\* step with list_items / current.
ScanInit ==
    [list_items |-> <<>>, current |-> <<>>, base |-> <<>>,
     raw |-> <<>>, current_raw |-> 0, error |-> NoError]

\* one iteration of the for loop (lines 153-194)
ScanLine(st, line, T, max_nesting_level) ==
    LET marker == detect_list_marker(line)
    IN  IF st.error # NoError THEN st
        ELSE IF marker # <<>>
        THEN LET saved == IF st.current # <<>> THEN Append(st.list_items, st.current[1])
                                               ELSE st.list_items
                 savedRaw == IF st.current # <<>> THEN Append(st.raw, st.current_raw)
                                                  ELSE st.raw
                 level == calculate_nesting_level(line, st.base, T)
                 base == IF st.base = <<>> THEN <<line.x_position>> ELSE st.base
                 extracted == extract_content_from_line(line, marker[1])
                 content == IF IsBlank(extracted) THEN EmptyPlaceholder ELSE extracted
                 capped == cap_level(level, max_nesting_level)
             IN  IF ListItemValid(content, capped)
                 THEN [st EXCEPT !.list_items = saved, !.raw = savedRaw, !.base = base,
                                 !.current = << ListItem(content, capped, marker[1], <<line>>) >>,
                                 !.current_raw = level]
                 ELSE [st EXCEPT !.list_items = saved, !.raw = savedRaw, !.base = base,
                                 !.error = ValueError]
        ELSE IF st.current # <<>> /\ is_continuation_line(line, st.current[1])
        THEN LET cur == st.current[1]
                 continuation_content == Strip(line.text)
             IN  IF ~IsBlank(continuation_content)
                 THEN [st EXCEPT !.current =
                         << ListItem(cur.content \o <<" ">> \o continuation_content,
                                     cur.level, cur.marker, Append(cur.lines, line)) >>]
                 ELSE st
        ELSE IF st.current # <<>>
        THEN [st EXCEPT !.list_items = Append(@, st.current[1]),
                        !.raw = Append(@, st.current_raw),
                        !.current = <<>>]
        ELSE st

RECURSIVE ScanLines(_, _, _, _)
ScanLines(st0, ls, T, max_nesting_level) ==
    With(st0, LAMBDA st :
        IF ls = <<>> THEN st
        ELSE ScanLines(ScanLine(st, Head(ls), T, max_nesting_level), Tail(ls), T,
                       max_nesting_level))

\* detect_list_items_from_lines: [list_items, raw, error]
detect_list_items_from_lines(ls, T, max_nesting_level) ==
    With(ScanLines(ScanInit, ls, T, max_nesting_level), LAMBDA st :
        IF st.error # NoError
        THEN [list_items |-> <<>>, raw |-> <<>>, error |-> st.error]
        ELSE IF st.current # <<>>
        THEN [list_items |-> Append(st.list_items, st.current[1]),
              raw |-> Append(st.raw, st.current_raw), error |-> NoError]
        ELSE [list_items |-> st.list_items, raw |-> st.raw, error |-> NoError])

\* _should_start_new_block splitting at a level gap of 2
should_start_new_block_Gap2(current_block, item) ==
    IF current_block = <<>> \/ is_empty(current_block[1]) THEN TRUE
    ELSE IF current_block[1].list_type # item.marker.marker_type THEN TRUE
    ELSE LET last_item == current_block[1].items[Len(current_block[1].items)]
             level_gap == Abs(item.level - last_item.level)
         IN  level_gap >= 2

\* _should_start_new_block; current_block is <<>> (None) or <<block>>
should_start_new_block(current_block, item) ==
    IF current_block = <<>> \/ is_empty(current_block[1]) THEN TRUE
    ELSE IF current_block[1].list_type # item.marker.marker_type THEN TRUE
    ELSE LET last_item == current_block[1].items[Len(current_block[1].items)]
             level_gap == Abs(item.level - last_item.level)
         IN  level_gap > 2

\* one iteration of the loop of group_list_items_into_blocks (lines 218-232)
GroupItem(st, item) ==
    IF st.error # NoError THEN st
    ELSE LET fresh == \/ st.current = <<>>
                      \/ st.current[1].list_type # item.marker.marker_type
                      \/ should_start_new_block(st.current, item)
             blocks == IF fresh /\ st.current # <<>> /\ ~is_empty(st.current[1])
                       THEN Append(st.blocks, st.current[1]) ELSE st.blocks
             target == IF fresh THEN ListBlock(item.marker.marker_type) ELSE st.current[1]
             added == add_item(target, item)
         IN  [blocks |-> blocks, current |-> << added.block >>, error |-> added.error]

RECURSIVE GroupItems(_, _)
GroupItems(st0, items) ==
    With(st0, LAMBDA st :
        IF items = <<>> THEN st ELSE GroupItems(GroupItem(st, Head(items)), Tail(items)))

\* group_list_items_into_blocks returning without the closing append
group_list_items_into_blocks_SkipLast(items) ==
    With(GroupItems([blocks |-> <<>>, current |-> <<>>, error |-> NoError], items), LAMBDA st :
        IF st.error # NoError
        THEN [blocks |-> <<>>, error |-> st.error]
        ELSE [blocks |-> st.blocks, error |-> NoError])

\* group_list_items_into_blocks: [blocks, error]
group_list_items_into_blocks(items) ==
    With(GroupItems([blocks |-> <<>>, current |-> <<>>, error |-> NoError], items), LAMBDA st :
        IF st.error # NoError
        THEN [blocks |-> <<>>, error |-> st.error]
        ELSE IF st.current # <<>> /\ ~is_empty(st.current[1])
        THEN [blocks |-> Append(st.blocks, st.current[1]), error |-> NoError]
        ELSE [blocks |-> st.blocks, error |-> NoError])

\* ------------------------------------------- document.py: list rendering
DigitChar(d) == <<"0", "1", "2", "3", "4", "5", "6", "7", "8", "9">>[d + 1]

\* str(n) for n >= 0
RECURSIVE Str(_)
Str(n) == IF n < 10 THEN <<DigitChar(n)>> ELSE Str(n \div 10) \o <<DigitChar(n % 10)>>

\* sep.join(parts)
RECURSIVE Join(_, _)
Join(parts, sep) ==
    IF parts = <<>> THEN <<>>
    ELSE IF Len(parts) = 1 THEN parts[1]
    ELSE parts[1] \o sep \o Join(Tail(parts), sep)

\* s.split('\n')
RECURSIVE SplitLines(_)
SplitLines(s) ==
    IF \A i \in 1..Len(s) : s[i] # "\n" THEN <<s>>
    ELSE LET i == CHOOSE i \in 1..Len(s) : s[i] = "\n" /\ \A j \in 1..(i-1) : s[j] # "\n"
         IN  <<SubSeq(s, 1, i - 1)>> \o SplitLines(Drop(s, i))

\* "  " * level
RECURSIVE Indent(_)
Indent(level) == IF level <= 0 THEN <<>> ELSE <<" ", " ">> \o Indent(level - 1)

\* ListBlock._get_item_number: 1 + the items of the target's level that
\* precede the first item equal (==) to the target
get_item_number(blk, target_item) ==
    LET n == Len(blk.items)
        eq == { j \in 1..n : blk.items[j] = target_item }
        stop == IF eq = {} THEN n + 1 ELSE CHOOSE j \in eq : \A k \in eq : j <= k
    IN  Str(1 + Cardinality({ j \in 1..(stop - 1) : blk.items[j].level = target_item.level }))

\* ListBlock._format_item_markdown
format_item_markdown(blk, item) ==
    IF blk.list_type = UNORDERED
    THEN Indent(item.level) \o <<"-", " ">> \o item.content
    ELSE Indent(item.level) \o get_item_number(blk, item) \o <<".", " ">> \o item.content

\* ListBlock.to_markdown (lines 295-317); ListLines collects the lines of the
\* items from index i on, a nested list's lines indented by three spaces
RECURSIVE ListLines(_, _)
ListBlock_to_markdown(blk) ==
    IF is_empty(blk) THEN <<>> ELSE Join(ListLines(blk, 1), <<"\n">>)

ListLines(blk, i) ==
    IF i > Len(blk.items) THEN <<>>
    ELSE LET own == << format_item_markdown(blk, blk.items[i]) >>
             nested_markdown == IF (i - 1) \in DOMAIN blk.nested_lists
                                THEN ListBlock_to_markdown(blk.nested_lists[i - 1])
                                ELSE <<>>
             nested_lines == IF nested_markdown = <<>> THEN <<>>
                             ELSE LET ls == SplitLines(nested_markdown)
                                  IN  [k \in 1..Len(ls) |-> <<" ", " ", " ">> \o ls[k]]
         IN  own \o nested_lines \o ListLines(blk, i + 1)

\* --------------------------------------------- document.py: block variants
\* Heading: level 1..6, content not blank (__post_init__); font_size is <<>>
\* (None) or <<size>>
Heading(level, content, fs, bold) ==
    [kind |-> "Heading", level |-> level, content |-> content, font_size |-> fs, is_bold |-> bold]

HeadingValid(level, content) == level >= 1 /\ level <= 6 /\ ~IsBlank(content)

TextBlock(content, fs) == [kind |-> "TextBlock", content |-> content, font_size |-> fs]

\* TextFlow; line_spacing is the fraction <<numerator, denominator>>
TextFlow(alignment, line_spacing, indentation, average_line_height) ==
    [alignment |-> alignment, line_spacing |-> line_spacing, indentation |-> indentation,
     average_line_height |-> average_line_height]

\* Paragraph; text_flow is <<>> (None) or <<flow>>
Paragraph(ls, flow, fs, cont, preserve) ==
    [kind |-> "Paragraph", lines |-> ls, text_flow |-> flow, font_size |-> fs,
     is_continuation |-> cont, preserve_line_breaks |-> preserve]

\* Paragraph.content: " ".join(line.text for line in self.lines)
Paragraph_content(p) == Join([i \in 1..Len(p.lines) |-> p.lines[i].text], <<" ">>)

\* Paragraph.is_empty
Paragraph_is_empty(p) == \A i \in 1..Len(p.lines) : IsBlank(p.lines[i].text)

\* "#" * level
RECURSIVE Hashes(_)
Hashes(n) == IF n <= 0 THEN <<>> ELSE <<"#">> \o Hashes(n - 1)

\* Heading.to_markdown
Heading_to_markdown(h) == Hashes(h.level) \o <<" ">> \o Strip(h.content)

\* TextBlock.to_markdown
TextBlock_to_markdown(b) == Strip(b.content)

\* the lines_text list of Paragraph.to_markdown (hard line breaks), from line i
RECURSIVE HardBreakLines(_, _)
HardBreakLines(p, i) ==
    IF i > Len(p.lines) THEN <<>>
    ELSE LET text == Strip(p.lines[i].text)
         IN  IF text = <<>> THEN HardBreakLines(p, i + 1)
             ELSE IF i < Len(p.lines)
                  THEN << text \o <<" ", " ">> >> \o HardBreakLines(p, i + 1)
                  ELSE << text >>

\* Paragraph.to_markdown
Paragraph_to_markdown(p) ==
    IF Paragraph_is_empty(p) THEN <<>>
    ELSE IF p.preserve_line_breaks
    THEN Join(HardBreakLines(p, 1), <<"\n">>) \o <<"\n">>
    ELSE LET content == Strip(Paragraph_content(p))
         IN  IF p.text_flow # <<>> /\ p.text_flow[1].indentation > 5
             THEN <<" ", " ", " ", " ">> \o content \o <<"\n">>
             ELSE content \o <<"\n">>

\* block.to_markdown(), by variant
Block_to_markdown(b) ==
    IF b.kind = "Heading" THEN Heading_to_markdown(b)
    ELSE IF b.kind = "TextBlock" THEN TextBlock_to_markdown(b)
    ELSE IF b.kind = "Paragraph" THEN Paragraph_to_markdown(b)
    ELSE ListBlock_to_markdown(b)

\* str.rstrip('\n')
RECURSIVE RStripNewlines(_)
RStripNewlines(s) ==
    IF s # <<>> /\ s[Len(s)] = "\n" THEN RStripNewlines(SubSeq(s, 1, Len(s) - 1)) ELSE s

\* Document; title is <<>> (None) or <<text>>
Document(title, blocks, metadata) ==
    [kind |-> "Document", title |-> title, blocks |-> blocks, metadata |-> metadata]

\* the markdown_parts a block contributes in Document.to_markdown (365-373)
BlockParts(b) ==
    LET markdown_content == Block_to_markdown(b)
        content == RStripNewlines(markdown_content)
    IN  IF markdown_content # <<>> /\ ~IsBlank(content)
        THEN IF b.kind = "Heading" THEN << content, <<>> >> ELSE << content >>
        ELSE <<>>

RECURSIVE AllBlockParts(_)
AllBlockParts(blocks) ==
    IF blocks = <<>> THEN <<>> ELSE BlockParts(Head(blocks)) \o AllBlockParts(Tail(blocks))

\* Document.to_markdown with a blank line after every emitted block
Document_to_markdown_BlankAfterAll(doc) ==
    LET titleParts == IF doc.title # <<>> /\ doc.title[1] # <<>>
                      THEN << <<"#", " ">> \o doc.title[1], <<>> >> ELSE <<>>
        RECURSIVE parts(_)
        parts(bs) == IF bs = <<>> THEN <<>>
                     ELSE (IF BlockParts(Head(bs)) = <<>> THEN <<>>
                           ELSE << BlockParts(Head(bs))[1], <<>> >>) \o parts(Tail(bs))
    IN  RStrip(Join(titleParts \o parts(doc.blocks), <<"\n">>))

\* Document.to_markdown
Document_to_markdown(doc) ==
    LET titleParts == IF doc.title # <<>> /\ doc.title[1] # <<>>
                      THEN << <<"#", " ">> \o doc.title[1], <<>> >> ELSE <<>>
    IN  RStrip(Join(titleParts \o AllBlockParts(doc.blocks), <<"\n">>))

\* ------------------------------------------------- paragraph_detector.py
\* font sizes are in tenths of a point; an optional size is <<>> or <<size>>
ContinuationWords ==
    {
      <<"a", "n", "d">>, <<"b", "u", "t">>, <<"o", "r">>, <<"s", "o">>, <<"f", "o", "r">>, <<"y", "e", "t">>,
      <<"n", "o", "r">>, <<"h", "o", "w", "e", "v", "e", "r">>,
      <<"t", "h", "e", "r", "e", "f", "o", "r", "e">>, <<"m", "o", "r", "e", "o", "v", "e", "r">>,
      <<"f", "u", "r", "t", "h", "e", "r", "m", "o", "r", "e">>,
      <<"n", "e", "v", "e", "r", "t", "h", "e", "l", "e", "s", "s">>,
      <<"c", "o", "n", "s", "e", "q", "u", "e", "n", "t", "l", "y">>, <<"t", "h", "u", "s">>,
      <<"h", "e", "n", "c", "e">> }

ContinuationStarters ==
    {
      <<"a", "n", "d">>, <<"b", "u", "t">>, <<"o", "r">>, <<"s", "o">>, <<"f", "o", "r">>, <<"y", "e", "t">>,
      <<"n", "o", "r">>, <<"h", "o", "w", "e", "v", "e", "r">>,
      <<"t", "h", "e", "r", "e", "f", "o", "r", "e">>, <<"m", "o", "r", "e", "o", "v", "e", "r">>,
      <<"f", "u", "r", "t", "h", "e", "r", "m", "o", "r", "e">>,
      <<"n", "e", "v", "e", "r", "t", "h", "e", "l", "e", "s", "s">>,
      <<"c", "o", "n", "s", "e", "q", "u", "e", "n", "t", "l", "y">>, <<"t", "h", "u", "s">>,
      <<"h", "e", "n", "c", "e">>, <<"a", "d", "d", "i", "t", "i", "o", "n", "a", "l", "l", "y">>,
      <<"m", "e", "a", "n", "w", "h", "i", "l", "e">>, <<"s", "i", "m", "i", "l", "a", "r", "l", "y">> }

SectionKeywords ==
    {
      <<"e", "d", "u", "c", "a", "t", "i", "o", "n">>, <<"e", "x", "p", "e", "r", "i", "e", "n", "c", "e">>,
      <<"s", "k", "i", "l", "l", "s">>, <<"s", "u", "m", "m", "a", "r", "y">>,
      <<"o", "b", "j", "e", "c", "t", "i", "v", "e">>, <<"b", "a", "c", "k", "g", "r", "o", "u", "n", "d">>,
      <<"q", "u", "a", "l", "i", "f", "i", "c", "a", "t", "i", "o", "n", "s">>,
      <<"a", "c", "h", "i", "e", "v", "e", "m", "e", "n", "t", "s">>,
      <<"p", "r", "o", "j", "e", "c", "t", "s">>,
      <<"c", "e", "r", "t", "i", "f", "i", "c", "a", "t", "i", "o", "n", "s">>,
      <<"a", "w", "a", "r", "d", "s">>, <<"c", "a", "r", "e", "e", "r">>,
      <<"p", "r", "o", "f", "e", "s", "s", "i", "o", "n", "a", "l">>,
      <<"e", "m", "p", "l", "o", "y", "m", "e", "n", "t">>,
      <<"w", "o", "r", "k", " ", "h", "i", "s", "t", "o", "r", "y">>,
      <<"t", "e", "c", "h", "n", "i", "c", "a", "l", " ", "s", "k", "i", "l", "l", "s">> }

ResumeSections ==
    {
      <<"P", "R", "O", "F", "E", "S", "S", "I", "O", "N", "A", "L", " ", "S", "U", "M", "M", "A", "R", "Y">>,
      <<"E", "X", "E", "C", "U", "T", "I", "V", "E", " ", "S", "U", "M", "M", "A", "R", "Y">>,
      <<"S", "U", "M", "M", "A", "R", "Y">>, <<"O", "B", "J", "E", "C", "T", "I", "V", "E">>,
      <<"E", "X", "P", "E", "R", "I", "E", "N", "C", "E">>,
      <<"W", "O", "R", "K", " ", "E", "X", "P", "E", "R", "I", "E", "N", "C", "E">>,
      <<"C", "A", "R", "E", "E", "R", " ", "E", "X", "P", "E", "R", "I", "E", "N", "C", "E">>,
      <<"E", "M", "P", "L", "O", "Y", "M", "E", "N", "T">>, <<"E", "D", "U", "C", "A", "T", "I", "O", "N">>,
      <<"E", "D", "U", "C", "A", "T", "I", "O", "N", "A", "L", " ", "B", "A", "C", "K", "G", "R", "O", "U", "N", "D">>,
      <<"A", "C", "A", "D", "E", "M", "I", "C", " ", "B", "A", "C", "K", "G", "R", "O", "U", "N", "D">>,
      <<"S", "K", "I", "L", "L", "S">>,
      <<"T", "E", "C", "H", "N", "I", "C", "A", "L", " ", "S", "K", "I", "L", "L", "S">>,
      <<"C", "O", "R", "E", " ", "C", "O", "M", "P", "E", "T", "E", "N", "C", "I", "E", "S">>,
      <<"K", "E", "Y", " ", "S", "K", "I", "L", "L", "S">>,
      <<"C", "E", "R", "T", "I", "F", "I", "C", "A", "T", "I", "O", "N", "S">>,
      <<"C", "E", "R", "T", "I", "F", "I", "C", "A", "T", "E", "S">>, <<"A", "W", "A", "R", "D", "S">>,
      <<"H", "O", "N", "O", "R", "S">>, <<"P", "R", "O", "J", "E", "C", "T", "S">>,
      <<"P", "U", "B", "L", "I", "C", "A", "T", "I", "O", "N", "S">>,
      <<"R", "E", "S", "E", "A", "R", "C", "H">>, <<"R", "E", "F", "E", "R", "E", "N", "C", "E", "S">> }

ResumeSingleWords ==
    {
      <<"S", "U", "M", "M", "A", "R", "Y">>, <<"O", "B", "J", "E", "C", "T", "I", "V", "E">>,
      <<"E", "X", "P", "E", "R", "I", "E", "N", "C", "E">>, <<"E", "D", "U", "C", "A", "T", "I", "O", "N">>,
      <<"S", "K", "I", "L", "L", "S">>,
      <<"C", "E", "R", "T", "I", "F", "I", "C", "A", "T", "I", "O", "N", "S">>,
      <<"A", "W", "A", "R", "D", "S">>, <<"P", "R", "O", "J", "E", "C", "T", "S">>,
      <<"R", "E", "F", "E", "R", "E", "N", "C", "E", "S">> }

LEFT == "left"
CENTER == "center"

\* sum of f[i] over 1..Len(f)
RECURSIVE SumSeq(_)
SumSeq(f) == IF f = <<>> THEN 0 ELSE Head(f) + SumSeq(Tail(f))

\* _detect_text_alignment (alignment_tolerance 5.0); positions are compared
\* after multiplying by the number of lines, so the mean needs no division
detect_text_alignment(ls) ==
    IF ls = <<>> THEN LEFT
    ELSE LET n == Len(ls)
             xs == [i \in 1..n |-> ls[i].x_position]
             left_aligned == \A i \in 1..n : Abs(xs[i] - xs[1]) <= 5
             total == SumSeq(xs)
             spread == SumSeq([i \in 1..n |-> Abs(n * xs[i] - total)])
         IN  IF left_aligned THEN LEFT
             ELSE IF spread <= 5 * 2 * n * n THEN CENTER
             ELSE LEFT

\* _detect_indentation: max(0.0, min_x - 50.0)
detect_indentation(ls) ==
    IF ls = <<>> THEN 0
    ELSE LET min_x == CHOOSE x \in { ls[i].x_position : i \in 1..Len(ls) } :
                         \A i \in 1..Len(ls) : x <= ls[i].x_position
         IN  Max(0, min_x - 50)

\* Line.vertical_spacing_to
vertical_spacing_to(a, b) == a.y_position - b.y_position - b.height

\* _create_text_flow_from_lines.  line_spacing is the fraction num/den (the
\* mean of the spacings over the mean height), 1/1 for fewer than two lines;
\* the lines built by convert_text_block_to_paragraph all have height 12
create_text_flow_from_lines(ls) ==
    IF ls = <<>>
    THEN TextFlow(LEFT, <<1, 1>>, 0, 12)
    ELSE LET n == Len(ls)
             heights == SumSeq([i \in 1..n |-> ls[i].height])
             spacings == SumSeq([i \in 1..(n - 1) |-> vertical_spacing_to(ls[i], ls[i + 1])])
         IN  TextFlow(detect_text_alignment(ls),
                      IF n > 1 THEN << spacings * n, heights * (n - 1) >> ELSE <<1, 1>>,
                      detect_indentation(ls),
                      heights \div n)

\* _is_paragraph_continuation_from_text
is_paragraph_continuation_from_text(text0) ==
    IF text0 = <<>> THEN FALSE
    ELSE With(Strip(text0), LAMBDA text :
             With(Words(text), LAMBDA ws :
                 IF /\ IsLowerChar(text[1])
                    /\ text[1] # "\"" /\ text[1] # "'" /\ text[1] \notin DigitChars
                 THEN TRUE
                 ELSE (IF ws # <<>> THEN ToLower(ws[1]) ELSE <<>>) \in ContinuationWords))

\* the Line objects convert_text_block_to_paragraph builds from the split
\* content: line i (0-based) at y = 100 - 15*i, x = 50 + 2 * leading blanks
RECURSIVE SimulatedLines(_, _, _)
SimulatedLines(lines_text, i, fs) ==
    IF i > Len(lines_text) THEN <<>>
    ELSE LET line_text == lines_text[i]
             x_offset == Len(line_text) - Len(LStrip(line_text))
         IN  (IF ~IsBlank(line_text)
              THEN << LineF(line_text, 100 - (i - 1) * 15, 50 + x_offset * 2, 12, fs) >>
              ELSE <<>>) \o SimulatedLines(lines_text, i + 1, fs)

\* convert_text_block_to_paragraph with the line texts stripped
convert_text_block_to_paragraph_StripLines(text_block) ==
    IF IsBlank(text_block.content)
    THEN Paragraph(<<>>, <<>>, text_block.font_size, FALSE, FALSE)
    ELSE With(SplitLines(text_block.content), LAMBDA lines_text :
             With(SimulatedLines([i \in 1..Len(lines_text) |-> Strip(lines_text[i])], 1,
                                 text_block.font_size), LAMBDA ls :
                 Paragraph(ls, << create_text_flow_from_lines(ls) >>, text_block.font_size,
                           is_paragraph_continuation_from_text(text_block.content), FALSE)))

\* convert_text_block_to_paragraph
convert_text_block_to_paragraph(text_block) ==
    IF IsBlank(text_block.content)
    THEN Paragraph(<<>>, <<>>, text_block.font_size, FALSE, FALSE)
    ELSE With(SplitLines(text_block.content), LAMBDA lines_text :
             With(SimulatedLines(lines_text, 1, text_block.font_size), LAMBDA ls :
                 Paragraph(ls, << create_text_flow_from_lines(ls) >>, text_block.font_size,
                           is_paragraph_continuation_from_text(text_block.content), FALSE)))

\* _is_resume_section_header
is_resume_section_header(content) ==
    With(ToUpper(Strip(content)), LAMBDA content_clean :
        \/ content_clean \in ResumeSections
        \/ content_clean \in ResumeSingleWords
        \/ \E section \in ResumeSections :
             StartsWith(content_clean, section) /\ Len(content_clean) <= Len(section) + 10)

\* _is_section_header
is_section_header(content0) ==
    With(Strip(content0), LAMBDA content :
        With(ToLower(content), LAMBDA content_lower :
            \/ (IsUpperStr(content) /\ 3 <= Len(content) /\ Len(content) <= 50)
            \/ \E keyword \in SectionKeywords : Contains(content_lower, keyword)
            \/ (IsTitleStr(content) /\ Len(Words(content)) <= 4 /\ ~EndsWithTerminal(content))))

\* get_list_marker of _is_same_list_type: <<>> for None, else the bullet or
\* the name of the first numbered pattern that matches
get_list_marker(content0) ==
    With(Strip(content0), LAMBDA content :
        With(DigitRun(content, 1), LAMBDA n :
            IF content # <<>> /\ content[1] \in {"-", "*"} THEN << content[1] >>
            ELSE IF n >= 1 /\ Len(content) > n /\ content[n + 1] = "." THEN << "digits." >>
            ELSE IF n >= 1 /\ Len(content) > n /\ content[n + 1] = ")" THEN << "digits)" >>
            ELSE IF Len(content) >= 3 /\ content[1] = "("
                    /\ (content[2] \in DigitChars \/ content[2] \in LowerChars)
                    /\ content[3] = ")"
                 THEN << "(x)" >>
            ELSE IF Len(content) >= 2 /\ content[1] \in LowerChars /\ content[2] = "."
                 THEN << "a." >>
            ELSE IF Len(content) >= 2 /\ content[1] \in UpperChars /\ content[2] = "."
                 THEN << "A." >>
            ELSE <<>>))

\* _is_list_item
is_list_item(content) == get_list_marker(content) # <<>>

\* _is_same_list_type
is_same_list_type(content1, content2) ==
    With(get_list_marker(content1), LAMBDA marker1 :
        With(get_list_marker(content2), LAMBDA marker2 :
            marker1 # <<>> /\ marker2 # <<>> /\ marker1 = marker2))

\* _is_explicit_continuation
is_explicit_continuation(content) ==
    With(Strip(content), LAMBDA content_stripped :
        With(ToLower(content_stripped), LAMBDA content_lower :
            With(Words(content_lower), LAMBDA ws :
                \/ /\ content_stripped # <<>>
                   /\ IsLowerChar(content_stripped[1])
                   /\ content_stripped[1] # "\"" /\ content_stripped[1] # "'"
                   /\ ~(\E word \in { <<"i">>, <<"a">> } : StartsWith(content_lower, word))
                \/ (IF ws # <<>> THEN ws[1] ELSE <<>>) \in ContinuationStarters)))

\* _suggests_sentence_continuation
suggests_sentence_continuation(c1, c2) ==
    With(Strip(c1), LAMBDA content1 :
        With(Strip(c2), LAMBDA content2 :
            \/ /\ ~EndsWithTerminal(content1)
               /\ \/ (content2 # <<>> /\ IsLowerChar(content2[1]))
                  \/ is_explicit_continuation(content2)
            \/ /\ EndsWith(content1, <<",">>)
               /\ content2 # <<>>
               /\ ~IsUpperChar(content2[1])
               /\ ~is_section_header(content2)))

\* _should_merge_paragraphs_enhanced
should_merge_paragraphs_enhanced(para1, para2) ==
    With(Strip(Paragraph_content(para1)), LAMBDA content1 :
        With(Strip(Paragraph_content(para2)), LAMBDA content2 :
            IF content1 = <<>> \/ content2 = <<>> THEN FALSE
            ELSE IF is_resume_section_header(content1) \/ is_resume_section_header(content2)
                 THEN FALSE
            ELSE IF is_section_header(content1) \/ is_section_header(content2) THEN FALSE
            ELSE IF /\ para1.font_size # <<>> /\ para2.font_size # <<>>
                    /\ Abs(para1.font_size[1] - para2.font_size[1]) > 5 THEN FALSE
            ELSE IF is_list_item(content1) # is_list_item(content2) THEN FALSE
            ELSE IF is_list_item(content1) /\ is_list_item(content2)
                 THEN is_same_list_type(content1, content2)
            ELSE IF is_explicit_continuation(content2) THEN TRUE
            ELSE suggests_sentence_continuation(content1, content2)))

\* --------------------------------------------------- heading_detector.py
PrimarySections ==
    {
      <<"P", "R", "O", "F", "E", "S", "S", "I", "O", "N", "A", "L", " ", "S", "U", "M", "M", "A", "R", "Y">>,
      <<"E", "X", "E", "C", "U", "T", "I", "V", "E", " ", "S", "U", "M", "M", "A", "R", "Y">>,
      <<"S", "U", "M", "M", "A", "R", "Y">>, <<"O", "B", "J", "E", "C", "T", "I", "V", "E">>,
      <<"C", "A", "R", "E", "E", "R", " ", "O", "B", "J", "E", "C", "T", "I", "V", "E">>,
      <<"P", "R", "O", "F", "E", "S", "S", "I", "O", "N", "A", "L", " ", "O", "B", "J", "E", "C", "T", "I", "V", "E">>,
      <<"E", "X", "P", "E", "R", "I", "E", "N", "C", "E">>,
      <<"W", "O", "R", "K", " ", "E", "X", "P", "E", "R", "I", "E", "N", "C", "E">>,
      <<"P", "R", "O", "F", "E", "S", "S", "I", "O", "N", "A", "L", " ", "E", "X", "P", "E", "R", "I", "E", "N", "C", "E">>,
      <<"C", "A", "R", "E", "E", "R", " ", "E", "X", "P", "E", "R", "I", "E", "N", "C", "E">>,
      <<"E", "M", "P", "L", "O", "Y", "M", "E", "N", "T", " ", "H", "I", "S", "T", "O", "R", "Y">>,
      <<"W", "O", "R", "K", " ", "H", "I", "S", "T", "O", "R", "Y">>,
      <<"E", "D", "U", "C", "A", "T", "I", "O", "N">>,
      <<"E", "D", "U", "C", "A", "T", "I", "O", "N", "A", "L", " ", "B", "A", "C", "K", "G", "R", "O", "U", "N", "D">>,
      <<"A", "C", "A", "D", "E", "M", "I", "C", " ", "B", "A", "C", "K", "G", "R", "O", "U", "N", "D">>,
      <<"S", "K", "I", "L", "L", "S">>,
      <<"T", "E", "C", "H", "N", "I", "C", "A", "L", " ", "S", "K", "I", "L", "L", "S">>,
      <<"C", "O", "R", "E", " ", "C", "O", "M", "P", "E", "T", "E", "N", "C", "I", "E", "S">>,
      <<"K", "E", "Y", " ", "S", "K", "I", "L", "L", "S">>,
      <<"C", "E", "R", "T", "I", "F", "I", "C", "A", "T", "I", "O", "N", "S">>,
      <<"C", "E", "R", "T", "I", "F", "I", "C", "A", "T", "E", "S">>,
      <<"P", "R", "O", "F", "E", "S", "S", "I", "O", "N", "A", "L", " ", "C", "E", "R", "T", "I", "F", "I", "C", "A", "T", "I", "O", "N", "S">>,
      <<"A", "W", "A", "R", "D", "S">>, <<"H", "O", "N", "O", "R", "S">>,
      <<"A", "C", "H", "I", "E", "V", "E", "M", "E", "N", "T", "S">>,
      <<"A", "C", "C", "O", "M", "P", "L", "I", "S", "H", "M", "E", "N", "T", "S">>,
      <<"P", "R", "O", "J", "E", "C", "T", "S">>,
      <<"K", "E", "Y", " ", "P", "R", "O", "J", "E", "C", "T", "S">>,
      <<"N", "O", "T", "A", "B", "L", "E", " ", "P", "R", "O", "J", "E", "C", "T", "S">>,
      <<"P", "U", "B", "L", "I", "C", "A", "T", "I", "O", "N", "S">>,
      <<"R", "E", "S", "E", "A", "R", "C", "H">>,
      <<"P", "U", "B", "L", "I", "C", "A", "T", "I", "O", "N", "S", " ", "A", "N", "D", " ", "R", "E", "S", "E", "A", "R", "C", "H">>,
      <<"R", "E", "F", "E", "R", "E", "N", "C", "E", "S">>,
      <<"P", "R", "O", "F", "E", "S", "S", "I", "O", "N", "A", "L", " ", "R", "E", "F", "E", "R", "E", "N", "C", "E", "S">> }

SingleWordSections ==
    {
      <<"S", "U", "M", "M", "A", "R", "Y">>, <<"O", "B", "J", "E", "C", "T", "I", "V", "E">>,
      <<"E", "X", "P", "E", "R", "I", "E", "N", "C", "E">>, <<"E", "D", "U", "C", "A", "T", "I", "O", "N">>,
      <<"S", "K", "I", "L", "L", "S">>,
      <<"C", "E", "R", "T", "I", "F", "I", "C", "A", "T", "I", "O", "N", "S">>,
      <<"A", "W", "A", "R", "D", "S">>, <<"P", "R", "O", "J", "E", "C", "T", "S">>,
      <<"P", "U", "B", "L", "I", "C", "A", "T", "I", "O", "N", "S">>,
      <<"R", "E", "F", "E", "R", "E", "N", "C", "E", "S">> }

NameIndicators ==
    {
      <<"j", "r">>, <<"s", "r">>, <<"i", "i", "i">>, <<"p", "h", "d">>, <<"m", "d">>, <<"p", "e">>,
      <<"c", "p", "a">> }

BusinessWords ==
    {
      <<"c", "o", "m", "p", "a", "n", "y">>, <<"c", "o", "r", "p", "o", "r", "a", "t", "i", "o", "n">>,
      <<"m", "a", "n", "a", "g", "e", "r">>, <<"d", "i", "r", "e", "c", "t", "o", "r">>,
      <<"e", "n", "g", "i", "n", "e", "e", "r">> }

MajorKeywords ==
    {
      <<"e", "x", "p", "e", "r", "i", "e", "n", "c", "e">>, <<"e", "d", "u", "c", "a", "t", "i", "o", "n">>,
      <<"s", "k", "i", "l", "l", "s">>, <<"s", "u", "m", "m", "a", "r", "y">>,
      <<"o", "b", "j", "e", "c", "t", "i", "v", "e">>,
      <<"c", "e", "r", "t", "i", "f", "i", "c", "a", "t", "i", "o", "n", "s">>,
      <<"a", "w", "a", "r", "d", "s">>, <<"p", "r", "o", "j", "e", "c", "t", "s">>,
      <<"p", "u", "b", "l", "i", "c", "a", "t", "i", "o", "n", "s">> }

ContactIndicators ==
    {
      <<"@">>, <<"w", "w", "w", ".">>, <<"h", "t", "t", "p">>, <<"(">>, <<"-">>,
      <<"l", "i", "n", "k", "e", "d", "i", "n">>, <<"g", "i", "t", "h", "u", "b">>,
      <<"p", "o", "r", "t", "f", "o", "l", "i", "o">> }

\* block.content: a field of TextBlock and Heading, a property of Paragraph
Block_content(b) == IF b.kind = "Paragraph" THEN Paragraph_content(b) ELSE b.content

\* isinstance(block, TextBlock) or hasattr(block, 'lines'), with a truthy
\* font_size (neither None nor 0.0)
HasFontSize(b) ==
    /\ b.kind \in {"TextBlock", "Paragraph"}
    /\ b.font_size # <<>>
    /\ b.font_size[1] # 0

\* sorted(font_sizes)
RECURSIVE InsertSorted(_, _)
InsertSorted(x, f0) ==
    With(f0, LAMBDA f :
        IF f = <<>> THEN << x >>
        ELSE IF x <= Head(f) THEN << x >> \o f
        ELSE << Head(f) >> \o InsertSorted(x, Tail(f)))

RECURSIVE Sorted(_)
Sorted(f0) ==
    With(f0, LAMBDA f : IF f = <<>> THEN <<>> ELSE InsertSorted(Head(f), Sorted(Tail(f))))

Count(f, x) == Cardinality({ i \in 1..Len(f) : f[i] = x })

\* statistics.mode: the first value of the data with the highest count
\* (Python 3.8 and later: a non-empty sample never raises StatisticsError)
Mode(f0) ==
    With(f0, LAMBDA f :
        LET first == CHOOSE i \in 1..Len(f) :
                        /\ \A j \in 1..Len(f) : Count(f, f[j]) <= Count(f, f[i])
                        /\ \A j \in 1..(i - 1) : Count(f, f[j]) < Count(f, f[i])
        IN  f[first])

\* _extract_text_elements_from_blocks, reduced to the font sizes that
\* _calculate_baseline_font_size reads
RECURSIVE extract_text_elements_from_blocks(_)
extract_text_elements_from_blocks(blocks0) ==
    With(blocks0, LAMBDA blocks :
        IF blocks = <<>> THEN <<>>
        ELSE (IF HasFontSize(Head(blocks)) THEN << Head(blocks).font_size[1] >> ELSE <<>>)
             \o extract_text_elements_from_blocks(Tail(blocks)))

\* _calculate_baseline_font_size: 12.0 without sizes; outliers beyond 1.5
\* interquartile ranges are dropped for more than four sizes (compared after
\* doubling), then the mode
calculate_baseline_font_size(font_sizes) ==
    IF font_sizes = <<>> THEN 120
    ELSE With(Sorted(font_sizes), LAMBDA sorted_sizes :
             LET n == Len(font_sizes)
                 q1 == sorted_sizes[(n \div 4) + 1]
                 q3 == sorted_sizes[((3 * n) \div 4) + 1]
                 iqr == q3 - q1
                 filtered == SelectSeq(font_sizes,
                                LAMBDA size : /\ 2 * q1 - 3 * iqr <= 2 * size
                                              /\ 2 * size <= 2 * q3 + 3 * iqr)
             IN  Mode(IF n > 4 /\ filtered # <<>> THEN filtered ELSE font_sizes))

\* _is_likely_bold: getattr(block, 'is_bold', False); TextBlock and Paragraph
\* have no such attribute
is_likely_bold(b) == IF b.kind = "Heading" THEN b.is_bold ELSE FALSE

\* _is_contact_information
is_contact_information(content0) ==
    With(Strip(ToLower(content0)), LAMBDA content :
        Cardinality({ indicator \in ContactIndicators : Contains(content, indicator) }) >= 2)

\* _detect_resume_section_header: 2, or 0 for None
detect_resume_section_header(content) ==
    With(ToUpper(Strip(content)), LAMBDA content_clean :
        IF content_clean \in PrimarySections THEN 2
        ELSE IF content_clean \in SingleWordSections THEN 2
        ELSE IF \E section \in PrimarySections :
                   Contains(content_clean, section) /\ Len(content_clean) <= Len(section) + 20
             THEN 2
        ELSE 0)

\* _is_likely_name_or_title
is_likely_name_or_title(content0) ==
    With(Strip(content0), LAMBDA content :
        With(Words(content), LAMBDA words :
            With(ToLower(content), LAMBDA content_lower :
                IF /\ 2 <= Len(words) /\ Len(words) <= 4
                   /\ Len(content) <= 50
                   /\ \A i \in 1..Len(words) : IsUpperChar(words[i][1])
                   /\ \A i \in 1..Len(content) : content[i] \notin DigitChars
                   /\ ~EndsWithTerminal(content)
                THEN IF \E indicator \in NameIndicators : Contains(content_lower, indicator)
                     THEN TRUE
                     ELSE IF \E word \in BusinessWords : Contains(content_lower, word)
                          THEN FALSE
                     ELSE Len(words) <= 3
                ELSE FALSE)))

\* _is_major_section_keyword
is_major_section_keyword(content) ==
    With(ToLower(content), LAMBDA content_lower :
        \E keyword \in MajorKeywords : Contains(content_lower, keyword))

\* the levels _determine_heading_level derives from the score.  With
\* size_ratio = fs / base the score is kept as score * 10 * base, so that
\* every comparison is on integers.  Font sizes are whole or half points,
\* which a double holds exactly; size_ratio is then the double nearest to
\* fs / base, every later operation is exact, and the comparisons agree with
\* the rational ones except heading_score >= 0.8 at a score of exactly 0.8
\* (size_ratio 1.4 without style, 1.15 with bold): the doubles nearest to
\* 1.4 and 1.15 lie below them and the literal 0.8 lies above 0.8, so the
\* computed score 0.7999999999999998 fails the test
ScoredLevel(content, fs, base, bold) ==
    LET all_caps == IsUpperStr(content) /\ Len(Words(content)) <= 4
        style_bonus10 == (IF bold THEN 5 ELSE 0) + (IF all_caps THEN 10 ELSE 0)
        font_part == IF 100 * fs > 105 * base THEN Min(20 * (fs - base), 10 * base) ELSE 0
        heading_score == style_bonus10 * base + font_part
    IN  IF heading_score >= 15 * base
        THEN IF is_major_section_keyword(content) THEN 2
             ELSE IF 10 * fs >= 13 * base THEN 3
             ELSE IF style_bonus10 >= 10 THEN 4
             ELSE 5
        ELSE IF heading_score > 8 * base /\ 10 * fs > 11 * base THEN 6
        ELSE 0

\* not hasattr(block, 'font_size') or not block.font_size
has_no_font_size(b) ==
    \/ "font_size" \notin DOMAIN b
    \/ b.font_size = <<>>
    \/ b.font_size[1] = 0

\* the classification with the name/title pattern tried before the section
\* vocabulary
determine_heading_level_NameFirst(b, baseline_font_size) ==
    IF has_no_font_size(b) THEN 0
    ELSE With(Strip(Block_content(b)), LAMBDA content :
             IF Len(content) < 1 \/ Len(content) > 300 THEN 0
             ELSE IF is_contact_information(content) THEN 0
             ELSE IF is_likely_name_or_title(content) THEN 1
             ELSE IF detect_resume_section_header(content) # 0 THEN 2
             ELSE ScoredLevel(content, b.font_size[1], baseline_font_size, is_likely_bold(b)))

\* _determine_heading_level: the level 1..6, or 0 for None
determine_heading_level(b, baseline_font_size) ==
    IF has_no_font_size(b) THEN 0
    ELSE With(Strip(Block_content(b)), LAMBDA content :
             IF Len(content) < 1 \/ Len(content) > 300 THEN 0
             ELSE IF is_contact_information(content) THEN 0
             ELSE IF detect_resume_section_header(content) # 0 THEN 2
             ELSE IF is_likely_name_or_title(content) THEN 1
             ELSE ScoredLevel(content, b.font_size[1], baseline_font_size, is_likely_bold(b)))

\* ------------------------------------------------------- object identity
\* Python objects live in a heap, a sequence indexed by object id; a
\* Document on the heap holds the ids of its blocks, so that two documents
\* can share a block and a callee can change an object its caller still holds
Alloc(h, obj) == [heap |-> Append(h, obj), id |-> Len(h) + 1]

\* the blocks of a list of ids, as values
Deref(h, ids) == [i \in 1..Len(ids) |-> h[ids[i]]]

\* the Document value a heap document stands for
DocumentValue(h, d) == Document(h[d].title, Deref(h, h[d].blocks), h[d].metadata)

\* Paragraph.merge_with: self.lines.extend(other.lines)
merge_with(h, self, other) == [h EXCEPT ![self].lines = h[self].lines \o h[other].lines]

\* the loop of merge_continuous_paragraphs
RECURSIVE MergeLoop(_, _, _, _)
MergeLoop(h0, current_paragraph, rest, merged) ==
    With(h0, LAMBDA h :
        IF rest = <<>>
        THEN [heap |-> h, result |-> Append(merged, current_paragraph)]
        ELSE IF should_merge_paragraphs_enhanced(h[current_paragraph], h[Head(rest)])
             THEN MergeLoop(merge_with(h, current_paragraph, Head(rest)), current_paragraph,
                            Tail(rest), merged)
             ELSE MergeLoop(h, Head(rest), Tail(rest), Append(merged, current_paragraph)))

\* merge_continuous_paragraphs over a list of Paragraph ids
merge_continuous_paragraphs(h, paragraphs, content_aware) ==
    IF paragraphs = <<>> THEN [heap |-> h, result |-> <<>>]
    ELSE IF ~content_aware THEN [heap |-> h, result |-> paragraphs]
    ELSE MergeLoop(h, Head(paragraphs), Tail(paragraphs), <<>>)

\* _group_consecutive_text_blocks: runs of TextBlocks, other blocks alone
RECURSIVE GroupLoop(_, _, _, _)
GroupLoop(h, blocks, current_group, groups0) ==
    With(groups0, LAMBDA groups :
        IF blocks = <<>>
        THEN IF current_group # <<>> THEN Append(groups, current_group) ELSE groups
        ELSE IF h[Head(blocks)].kind = "TextBlock"
             THEN GroupLoop(h, Tail(blocks), Append(current_group, Head(blocks)), groups)
             ELSE GroupLoop(h, Tail(blocks), <<>>,
                            Append(IF current_group # <<>> THEN Append(groups, current_group)
                                   ELSE groups,
                                   << Head(blocks) >>)))

\* a grouping that gathers all TextBlocks into one group ahead of the other
\* blocks
group_consecutive_text_blocks_TextFirst(h, blocks) ==
    LET text == SelectSeq(blocks, LAMBDA id : h[id].kind = "TextBlock")
        other == SelectSeq(blocks, LAMBDA id : h[id].kind # "TextBlock")
    IN  (IF text = <<>> THEN <<>> ELSE << text >>) \o [i \in 1..Len(other) |-> << other[i] >>]

group_consecutive_text_blocks(h, blocks) == GroupLoop(h, blocks, <<>>, <<>>)

\* _is_text_block_group
is_text_block_group(h, group) == group # <<>> /\ h[group[1]].kind = "TextBlock"

\* the conversion loop of _process_text_block_group: the non-empty
\* paragraphs, each a new object
RECURSIVE ConvertLoop(_, _, _)
ConvertLoop(h0, text_blocks, paragraphs) ==
    With(h0, LAMBDA h :
        IF text_blocks = <<>> THEN [heap |-> h, result |-> paragraphs]
        ELSE With(convert_text_block_to_paragraph(h[Head(text_blocks)]), LAMBDA paragraph :
                 IF Paragraph_is_empty(paragraph)
                 THEN ConvertLoop(h, Tail(text_blocks), paragraphs)
                 ELSE ConvertLoop(Alloc(h, paragraph).heap, Tail(text_blocks),
                                  Append(paragraphs, Len(h) + 1))))

\* _process_text_block_group
process_text_block_group(h, text_blocks, content_aware) ==
    With(ConvertLoop(h, text_blocks, <<>>), LAMBDA c :
        IF c.result = <<>> THEN [heap |-> c.heap, result |-> <<>>]
        ELSE With(merge_continuous_paragraphs(c.heap, c.result, content_aware), LAMBDA m :
                 [heap |-> m.heap,
                  result |-> SelectSeq(m.result, LAMBDA id : ~Paragraph_is_empty(m.heap[id]))]))

\* the loop over the groups in detect_paragraphs_in_document
RECURSIVE ParagraphGroupsLoop(_, _, _, _)
ParagraphGroupsLoop(h0, groups, new_blocks, content_aware) ==
    With(h0, LAMBDA h :
        IF groups = <<>> THEN [heap |-> h, result |-> new_blocks]
        ELSE IF is_text_block_group(h, Head(groups))
             THEN With(process_text_block_group(h, Head(groups), content_aware), LAMBDA r :
                      ParagraphGroupsLoop(r.heap, Tail(groups), new_blocks \o r.result,
                                          content_aware))
             ELSE ParagraphGroupsLoop(h, Tail(groups), new_blocks \o Head(groups),
                                      content_aware))

\* detect_paragraphs_in_document: the id of the returned Document
detect_paragraphs_in_document(h, document, content_aware) ==
    IF h[document].blocks = <<>> THEN [heap |-> h, result |-> document]
    ELSE With(group_consecutive_text_blocks(h, h[document].blocks), LAMBDA block_groups :
             With(ParagraphGroupsLoop(h, block_groups, <<>>, content_aware), LAMBDA r :
                 With(Alloc(r.heap, Document(h[document].title, r.result,
                                             h[document].metadata)),
                      LAMBDA a : [heap |-> a.heap, result |-> a.id])))

\* the loop over the blocks in detect_headings_in_document: a block that
\* gets a level is replaced by a new Heading, any other block is kept
RECURSIVE HeadingLoop(_, _, _, _)
HeadingLoop(h0, blocks, baseline_font_size, new_blocks) ==
    With(h0, LAMBDA h :
        IF blocks = <<>> THEN [heap |-> h, result |-> new_blocks]
        ELSE With(IF HasFontSize(h[Head(blocks)])
                  THEN determine_heading_level(h[Head(blocks)], baseline_font_size) ELSE 0,
                  LAMBDA heading_level :
                 IF heading_level # 0
                 THEN HeadingLoop(Alloc(h, Heading(heading_level,
                                                   Block_content(h[Head(blocks)]),
                                                   h[Head(blocks)].font_size,
                                                   is_likely_bold(h[Head(blocks)]))).heap,
                                  Tail(blocks), baseline_font_size,
                                  Append(new_blocks, Len(h) + 1))
                 ELSE HeadingLoop(h, Tail(blocks), baseline_font_size,
                                  Append(new_blocks, Head(blocks)))))

\* detect_headings_in_document adding only the blocks it examined
detect_headings_in_document_OnlyExamined(h, document) ==
    With(extract_text_elements_from_blocks(Deref(h, h[document].blocks)),
         LAMBDA text_elements :
        IF h[document].blocks = <<>> THEN [heap |-> h, result |-> document]
        ELSE IF text_elements = <<>> THEN [heap |-> h, result |-> document]
        ELSE With(calculate_baseline_font_size(text_elements), LAMBDA baseline_font_size :
                 With(HeadingLoop(h, h[document].blocks, baseline_font_size, <<>>), LAMBDA r :
                     With(Alloc(r.heap,
                                Document(h[document].title,
                                         SelectSeq(r.result,
                                                   LAMBDA id : id > Len(h) \/ HasFontSize(h[id])),
                                         h[document].metadata)),
                          LAMBDA a : [heap |-> a.heap, result |-> a.id]))))

\* detect_headings_in_document: the id of the returned Document
detect_headings_in_document(h, document) ==
    With(extract_text_elements_from_blocks(Deref(h, h[document].blocks)),
         LAMBDA text_elements :
        IF h[document].blocks = <<>> THEN [heap |-> h, result |-> document]
        ELSE IF text_elements = <<>> THEN [heap |-> h, result |-> document]
        ELSE With(calculate_baseline_font_size(text_elements), LAMBDA baseline_font_size :
                 With(HeadingLoop(h, h[document].blocks, baseline_font_size, <<>>), LAMBDA r :
                     With(Alloc(r.heap, Document(h[document].title, r.result,
                                                 h[document].metadata)),
                          LAMBDA a : [heap |-> a.heap, result |-> a.id]))))

\* ------------------------------------------- pdfminer_parser.py, main.py
\* A PDF is the sequence of its text lines, each [text, x0, y1, height,
\* font_size] as pdfminer lays it out (font_size the mean character height)
PdfLine(text, x0, y1, height, fs) ==
    [text |-> text, x0 |-> x0, y1 |-> y1, height |-> height, font_size |-> fs]

Metadata == [source_file |-> "input.pdf", parser |-> "pdfminer"]

\* parse_document: a new Document, then one TextBlock for every text
\* element whose stripped content has at least three characters
parse_document(h, pdf_lines) ==
    With(SelectSeq(pdf_lines, LAMBDA l : Len(Strip(RStripNewlines(l.text))) >= 3),
         LAMBDA kept :
        [heap |-> h \o << Document(<<>>, [i \in 1..Len(kept) |-> Len(h) + 1 + i], Metadata) >>
                    \o [i \in 1..Len(kept) |->
                          TextBlock(RStripNewlines(kept[i].text), << kept[i].font_size >>)],
         result |-> Len(h) + 1])

\* what extract_line_elements yields when nothing fails: a tuple for every
\* line whose stripped text is not empty, built into Line(text, y, x, height)
extract_line_elements(pdf_lines) ==
    With(SelectSeq(pdf_lines, LAMBDA l : ~IsBlank(l.text)), LAMBDA kept :
        [i \in 1..Len(kept) |-> Line(Strip(kept[i].text), kept[i].y1, kept[i].x0,
                                     kept[i].height)])

\* the try block of _process_pdf_file variant that keeps the lines appended
\* before the exception
extract_positioned_lines_KeepPartial(pdf_lines, fail_after) ==
    IF fail_after = <<>>
    THEN [lines |-> extract_line_elements(pdf_lines), warned |-> FALSE]
    ELSE [lines |-> SubSeq(extract_line_elements(pdf_lines), 1, fail_after[1]),
          warned |-> TRUE]

\* the try block of _process_pdf_file: the generator raises after yielding
\* fail_after[1] tuples, or not at all when fail_after is <<>>; the handler
\* logs a warning and resets lines
extract_positioned_lines(pdf_lines, fail_after) ==
    IF fail_after = <<>>
    THEN [lines |-> extract_line_elements(pdf_lines), warned |-> FALSE]
    ELSE [lines |-> <<>>, warned |-> TRUE]

\* DocumentType values; business_document and manual take the default
\* recommendations, as unknown does, and report is never chosen
RESUME == "resume"
ACADEMIC_PAPER == "academic_paper"
UNKNOWN == "unknown"

\* get_processing_recommendations, the paragraph_detection.merge_aggressive
\* entry
merge_aggressive(document_type) == document_type = ACADEMIC_PAPER

\* block_text of the integration loops: content when the block has one,
\* else the joined lines, else ""
block_text(b) ==
    IF b.kind \in {"TextBlock", "Heading", "Paragraph"} THEN Strip(Block_content(b)) ELSE <<>>

\* list_item_texts: the stripped content of the items of the blocks
list_item_texts(blocks) ==
    UNION { { Strip(blocks[i].items[j].content) : j \in 1..Len(blocks[i].items) }
            : i \in 1..Len(blocks) }

\* is_list_content
is_list_content(b, texts) ==
    With(block_text(b), LAMBDA text :
        \E clean_text \in texts : Contains(text, clean_text) \/ Contains(clean_text, text))

\* _integrate_list_blocks_into_document: the blocks of target_document
\* become the source blocks that are not list content, then the list blocks
integrate_list_blocks_into_document(h0, target_document, source_document, list_blocks) ==
    With(h0, LAMBDA h : With(list_item_texts(Deref(h, list_blocks)), LAMBDA texts :
        [h EXCEPT ![target_document].blocks =
            h[target_document].blocks
            \o SelectSeq(h[source_document].blocks, LAMBDA id : ~is_list_content(h[id], texts))
            \o list_blocks]))

\* ------------------------------------------------------- code_detector.py
\* DEFAULT_MONOSPACE_FONTS
MonospaceFonts ==
    { <<"c", "o", "u", "r", "i", "e", "r">>,
      <<"c", "o", "u", "r", "i", "e", "r", " ", "n", "e", "w">>,
      <<"m", "o", "n", "a", "c", "o">>,
      <<"m", "e", "n", "l", "o">>,
      <<"c", "o", "n", "s", "o", "l", "a", "s">>,
      <<"i", "n", "c", "o", "n", "s", "o", "l", "a", "t", "a">>,
      <<"s", "o", "u", "r", "c", "e", " ", "c", "o", "d", "e", " ", "p", "r", "o">>,
      <<"f", "i", "r", "a", " ", "c", "o", "d", "e">>,
      <<"f", "i", "r", "a", " ", "m", "o", "n", "o">>,
      <<"l", "i", "b", "e", "r", "a", "t", "i", "o", "n", " ", "m", "o", "n", "o">>,
      <<"d", "e", "j", "a", "v", "u", " ", "s", "a", "n", "s", " ", "m", "o", "n", "o">>,
      <<"u", "b", "u", "n", "t", "u", " ", "m", "o", "n", "o">>,
      <<"r", "o", "b", "o", "t", "o", " ", "m", "o", "n", "o">>,
      <<"s", "f", " ", "m", "o", "n", "o">> }

\* \w of the regular expressions: letters, digits and the underscore
IsWordChar(c) == c \in LowerChars \cup UpperChars \cup DigitChars \cup {"_"}

\* re.compile(rf'\b{font}\b', re.IGNORECASE).search(font_family)
FontPatternSearch(font, font_family) ==
    With(ToLower(font_family), LAMBDA s :
        \E i \in 1..(Len(s) - Len(font) + 1) :
            /\ SubSeq(s, i, i + Len(font) - 1) = font
            /\ (i = 1 \/ ~IsWordChar(s[i - 1]))
            /\ (i + Len(font) > Len(s) \/ ~IsWordChar(s[i + Len(font)])))

\* is_monospace_font
is_monospace_font(font_family) ==
    IF font_family = <<>> THEN FALSE
    ELSE \/ Strip(ToLower(font_family)) \in MonospaceFonts
         \/ \E font \in MonospaceFonts : FontPatternSearch(font, font_family)

\* getattr(line, '_font_family', ''): a Line has no such attribute; the
\* lines of a caller that knows the fonts carry it
font_family_of(line) ==
    IF "_font_family" \in DOMAIN line THEN line._font_family ELSE <<>>

\* is_monospace_font(getattr(line, '_font_family', ''))
is_monospace_line(line) == is_monospace_font(font_family_of(line))

\* max_header_font_size (14.0), in tenths of a point
MaxHeaderFontSize == 140

\* is_code_context(lines, target_line_index), the index counting from 0
is_code_context(ls, target_line_index) ==
    IF ls = <<>> \/ target_line_index < 0 \/ target_line_index >= Len(ls) THEN FALSE
    ELSE With(ls[target_line_index + 1], LAMBDA target_line :
        IF ~is_monospace_line(target_line) THEN FALSE
        ELSE IF target_line.font_size # <<>> /\ target_line.font_size[1] # 0
                /\ target_line.font_size[1] > MaxHeaderFontSize
        THEN FALSE
        ELSE LET start_idx == Max(0, target_line_index - 1)
                 end_idx == Min(Len(ls), target_line_index + 2)
                 monospace_count ==
                     Cardinality({ j \in (start_idx + 1)..end_idx : is_monospace_line(ls[j]) })
             IN  IF end_idx - start_idx = 1 THEN TRUE
                 ELSE 2 * monospace_count >= end_idx - start_idx)

\* CodeStyle
CodeStyle(indentation_level, uses_tabs, preserve_whitespace, font_family) ==
    [indentation_level |-> indentation_level, uses_tabs |-> uses_tabs,
     preserve_whitespace |-> preserve_whitespace, font_family |-> font_family]

\* _extract_code_style: base_x 10.0, indentation_unit 4.0
extract_code_style(line, font_family) ==
    LET x_offset == line.x_position - 10
    IN  CodeStyle(IF x_offset > 1 THEN Max(1, x_offset \div 4) ELSE 0, FALSE, TRUE, font_family)

\* CodeLanguage.UNKNOWN
UNKNOWN_LANGUAGE == "unknown"

\* CodeBlock; style is <<>> (None) or <<style>>
CodeBlock(code_lines, language, style) ==
    [kind |-> "CodeBlock", lines |-> code_lines, language |-> language, style |-> style]

\* CodeBlock.is_empty: no line, or only lines of whitespace
CodeBlock_is_empty(code_block) ==
    \A i \in 1..Len(code_block.lines) : IsBlank(code_block.lines[i].text)

\* closing a run that keeps the block whatever its lines hold
CloseRun_KeepBlank(st) ==
    IF st.current_block_lines = <<>> THEN st
    ELSE [code_blocks |-> Append(st.code_blocks,
                                 CodeBlock(st.current_block_lines, UNKNOWN_LANGUAGE,
                                           st.current_style)),
          current_block_lines |-> <<>>,
          current_style |-> <<>>]

\* closing a run (lines 157-167 and 171-177): the block is kept unless empty
CloseRun(st) ==
    IF st.current_block_lines = <<>> THEN st
    ELSE With(CodeBlock(st.current_block_lines, UNKNOWN_LANGUAGE, st.current_style),
              LAMBDA code_block :
                  [code_blocks |-> IF CodeBlock_is_empty(code_block) THEN st.code_blocks
                                   ELSE Append(st.code_blocks, code_block),
                   current_block_lines |-> <<>>,
                   current_style |-> <<>>])

\* the for loop of detect_code_blocks (lines 140-167) from index i on, then
\* the final block (170-177)
RECURSIVE CodeLoop(_, _, _)
CodeLoop(st0, ls, i) ==
    With(st0, LAMBDA st :
        IF i >= Len(ls) THEN CloseRun(st)
        ELSE IF is_monospace_line(ls[i + 1]) /\ is_code_context(ls, i)
        THEN With(extract_code_style(ls[i + 1], font_family_of(ls[i + 1])), LAMBDA line_style :
                 CodeLoop(
                     [st EXCEPT !.current_block_lines = Append(@, ls[i + 1]),
                                !.current_style =
                                    IF @ = <<>> THEN << line_style >>
                                    ELSE IF line_style.indentation_level > @[1].indentation_level
                                    THEN << line_style >> ELSE @],
                     ls, i + 1))
        ELSE CodeLoop(CloseRun(st), ls, i + 1))

\* detect_code_blocks
detect_code_blocks(ls) ==
    IF ls = <<>> THEN <<>>
    ELSE CodeLoop([code_blocks |-> <<>>, current_block_lines |-> <<>>, current_style |-> <<>>],
                  ls, 0).code_blocks

\* ======================================================== state variables
VARIABLES
    \* list detector run: input lines, configuration, results
    lines, indentation_threshold, max_nesting_level,
    list_items, raw_levels, list_blocks, lpc,
    \* one ListBlock object and the last call made on it (with what it returned)
    block, call,
    \* one Document object and what its last to_markdown() returned
    document, rendered,
    \* the objects of a detector client, the ParagraphDetector's
    \* content_aware_merging attribute, and the last detector call made
    heap, content_aware_merging, last_call,
    \* one run of _process_pdf_file: the input file, the local variables
    \* and the step reached
    pdf, frame, pc,
    \* one call of a side-effect-free operation: its arguments and, once it
    \* has returned, its result
    input, output

listVars == <<lines, indentation_threshold, max_nesting_level,
              list_items, raw_levels, list_blocks, lpc>>
blockVars == <<block, call>>
renderVars == <<document, rendered>>
detectVars == <<heap, content_aware_merging, last_call>>
pipeVars == <<pdf, frame, pc>>
funVars == <<input, output>>
vars == <<listVars, blockVars, renderVars, detectVars, pipeVars, funVars>>

\* what the actions of one component leave alone
listOthers == <<blockVars, renderVars, detectVars, pipeVars, funVars>>
blockOthers == <<listVars, renderVars, detectVars, pipeVars, funVars>>
renderOthers == <<listVars, blockVars, detectVars, pipeVars, funVars>>
detectOthers == <<listVars, blockVars, renderVars, pipeVars, funVars>>
pipeOthers == <<listVars, blockVars, renderVars, last_call, funVars>>
funOthers == <<listVars, blockVars, renderVars, detectVars, pipeVars>>

\* ------------------------------------------------------------- input sets
TBullet == <<"-", " ", "a">>
TNumber == <<"1", ".", " ", "a">>
TPlain == <<"b">>
TEmptyBullet == <<"-", " ">>
TParen == <<"(", "a", ")", " ", "a">>
TRoman == <<"i", "i", ".", " ", "a">>

LinePool ==
    { Line(TBullet, 0, x, 12) : x \in {0, 5, 12, 13, 20} }
    \cup { Line(TNumber, 0, x, 12) : x \in {0, 20} }
    \cup { Line(TPlain, 0, x, 12) : x \in {5, 20} }
    \cup { Line(TEmptyBullet, 0, 0, 12), Line(TParen, 0, 5, 12), Line(TRoman, 0, 0, 12) }

SeqsUpTo(S, n) == UNION { [1..k -> S] : k \in 0..n }

Thresholds == {4, 5}
NestingLevels == 0..3

MarkerPool ==
    { ListMarker(ORDERED, <<"1">>, <<>>, <<".", " ">>),
      ListMarker(ORDERED, <<"5">>, <<>>, <<".", " ">>),
      ListMarker(UNORDERED, <<"-">>, <<>>, <<" ">>) }

ItemPool ==
    { ListItem(<<"a">>, 0, m, <<>>) : m \in MarkerPool }
    \cup { ListItem(<<"b">>, 1, m, <<>>) : m \in MarkerPool }

NestedPool ==
    { [kind |-> "ListBlock", list_type |-> UNORDERED,
       items |-> << ListItem(<<"a">>, 0, ListMarker(UNORDERED, <<"-">>, <<>>, <<" ">>), <<>>) >>,
       nested_lists |-> <<>>],
      ListBlock(UNORDERED) }

ParentIndexes == {0, 1}

\* ------------------------------------------------- the list detector run
ListIdle ==
    /\ lines = <<>>
    /\ indentation_threshold = 5
    /\ max_nesting_level = 3
    /\ list_items = <<>>
    /\ raw_levels = <<>>
    /\ list_blocks = <<>>
    /\ lpc = "idle"

BlockIdle ==
    /\ block = ListBlock(ORDERED)
    /\ call = [op |-> "idle", item |-> <<>>, before |-> <<>>, error |-> NoError, result |-> <<>>]

RenderIdle ==
    /\ document = Document(<<>>, <<>>, <<>>)
    /\ rendered = <<>>

NoCall == [op |-> "none", args |-> <<>>, result |-> <<>>, seq |-> 0]

DetectIdle ==
    /\ heap = <<>>
    /\ content_aware_merging = TRUE
    /\ last_call = NoCall

\* the locals of _process_pdf_file before any is assigned: an unassigned
\* local is <<>>, an assigned one <<value>>
NoFrame ==
    [document |-> <<>>, document_type |-> <<>>, document_with_paragraphs |-> <<>>,
     lines |-> <<>>, warned |-> FALSE, list_items |-> <<>>, list_blocks |-> <<>>,
     document_with_lists |-> <<>>, code_blocks |-> <<>>, document_with_headings |-> <<>>,
     written |-> <<>>]

\* no call made
FunIdle == input = <<>> /\ output = <<>>

PipeIdle ==
    /\ pdf = <<>>
    /\ frame = NoFrame
    /\ pc = "idle"

ListInit ==
    /\ lines \in SeqsUpTo(LinePool, MaxLines)
    /\ indentation_threshold \in Thresholds
    /\ max_nesting_level \in NestingLevels
    /\ list_items = <<>>
    /\ raw_levels = <<>>
    /\ list_blocks = <<>>
    /\ lpc = "input"
    /\ BlockIdle
    /\ RenderIdle
    /\ DetectIdle
    /\ PipeIdle
    /\ FunIdle

\* list_items = detector.detect_list_items_from_lines(lines)
DetectListItems ==
    /\ lpc = "input"
    /\ \E r \in { detect_list_items_from_lines(lines, indentation_threshold, max_nesting_level) } :
           /\ list_items' = r.list_items
           /\ raw_levels' = r.raw
           /\ lpc' = IF r.error = NoError THEN "detected" ELSE "raised"
    /\ UNCHANGED <<lines, indentation_threshold, max_nesting_level, list_blocks>>
    /\ UNCHANGED listOthers

\* list_blocks = detector.group_list_items_into_blocks(list_items)
GroupListItems ==
    /\ lpc = "detected"
    /\ \E r \in { group_list_items_into_blocks(list_items) } :
           /\ list_blocks' = r.blocks
           /\ lpc' = IF r.error = NoError THEN "grouped" ELSE "raised"
    /\ UNCHANGED <<lines, indentation_threshold, max_nesting_level, list_items, raw_levels>>
    /\ UNCHANGED listOthers

ListNext == DetectListItems \/ GroupListItems

SpecList == ListInit /\ [][ListNext]_vars

\* ------------------------------------------------- one ListBlock object
BlockInit ==
    /\ block \in { ListBlock(ORDERED), ListBlock(UNORDERED) }
    /\ call = [op |-> "init", item |-> <<>>, before |-> <<>>, error |-> NoError, result |-> <<>>]
    /\ ListIdle
    /\ RenderIdle
    /\ DetectIdle
    /\ PipeIdle
    /\ FunIdle

\* block.add_item(item)
AddItem ==
    /\ Len(block.items) < MaxItems
    /\ \E item \in ItemPool :
         LET r == add_item(block, item)
         IN  /\ block' = r.block
             /\ call' = [op |-> "add_item", item |-> <<item>>,
                         before |-> block.items, error |-> r.error, result |-> <<>>]
    /\ UNCHANGED blockOthers

\* block.add_nested_list(nested_list, parent_index)
AddNestedList ==
    /\ \E nested \in NestedPool, parent_index \in ParentIndexes :
         /\ block' = [block EXCEPT !.nested_lists =
                        [k \in (DOMAIN @) \cup {parent_index} |->
                            IF k = parent_index THEN nested ELSE @[k]]]
         /\ call' = [op |-> "add_nested_list", item |-> <<>>,
                     before |-> block.items, error |-> NoError, result |-> <<>>]
    /\ UNCHANGED blockOthers

\* block.to_markdown()
ToMarkdown ==
    /\ call' = [op |-> "to_markdown", item |-> <<>>, before |-> block.items,
                error |-> NoError, result |-> ListBlock_to_markdown(block)]
    /\ UNCHANGED block
    /\ UNCHANGED blockOthers

BlockNext == AddItem \/ AddNestedList \/ ToMarkdown

SpecBlock == BlockInit /\ [][BlockNext]_vars

\* ------------------------------------------------- one Document object
MaxBlocks == 3

PlainLine(text) == LineF(text, 0, 50, 12, <<>>)

RenderBlockPool ==
    { Heading(2, <<"H">>, <<>>, FALSE),
      Heading(1, <<" ", "H", "\n">>, <<>>, FALSE),
      TextBlock(<<"a">>, <<>>),
      TextBlock(<<" ", "a", "\n">>, <<>>),
      TextBlock(<<" ">>, <<>>),
      Paragraph(<< PlainLine(<<"a">>), PlainLine(<<"b">>) >>, <<>>, <<>>, FALSE, TRUE),
      Paragraph(<< PlainLine(<<"a">>) >>, << TextFlow("left", <<1, 1>>, 10, 12) >>, <<>>, FALSE, FALSE),
      Paragraph(<< PlainLine(<<" ">>) >>, <<>>, <<>>, FALSE, FALSE),
      [kind |-> "ListBlock", list_type |-> UNORDERED,
       items |-> << ListItem(<<"a">>, 0, ListMarker(UNORDERED, <<"-">>, <<>>, <<" ">>), <<>>) >>,
       nested_lists |-> <<>>] }

RenderInit ==
    /\ document \in { Document(<<>>, <<>>, <<>>), Document(<< <<"T">> >>, <<>>, <<>>) }
    /\ rendered = <<>>
    /\ ListIdle
    /\ BlockIdle
    /\ DetectIdle
    /\ PipeIdle
    /\ FunIdle

\* document.add_block(block)
AddBlock ==
    /\ Len(document.blocks) < MaxBlocks
    /\ \E b \in RenderBlockPool : document' = [document EXCEPT !.blocks = Append(@, b)]
    /\ rendered' = <<>>
    /\ UNCHANGED renderOthers

\* MarkdownFormatter.format_document: a Document object is never falsy, so
\* the result is that of its to_markdown
format_document(doc) == Document_to_markdown(doc)

\* the calls that render the document as it is
MaxRenders == 2

\* document.to_markdown() that consumes the title it has emitted
RenderDocument_ConsumesTitle ==
    /\ Len(rendered) < MaxRenders
    /\ rendered' = Append(rendered, Document_to_markdown(document))
    /\ document' = [document EXCEPT !.title = <<>>]
    /\ UNCHANGED renderOthers

\* document.to_markdown(); rendered holds the results of the calls made on
\* the document since its last change, in order
RenderDocument ==
    /\ Len(rendered) < MaxRenders
    /\ rendered' = Append(rendered, Document_to_markdown(document))
    /\ UNCHANGED document
    /\ UNCHANGED renderOthers

\* formatter.format_document(document)
FormatDocument ==
    /\ Len(rendered) < MaxRenders
    /\ rendered' = Append(rendered, format_document(document))
    /\ UNCHANGED document
    /\ UNCHANGED renderOthers

RenderNext == AddBlock \/ RenderDocument \/ FormatDocument

SpecRender == RenderInit /\ [][RenderNext]_vars

\* ------------------------------------- calls on the two document detectors
MaxDocBlocks == 2
MaxCalls == 3

\* the blocks a client puts in a document: text with and without a font
\* size, a pair the merging joins, a section title, blank text, a heading,
\* and two paragraphs the merging joins
DetectBlockPool ==
    { TextBlock(<<"a", "b", " ", "c">>, <<120>>),
      TextBlock(<<"a", "n", "d", " ", "d">>, <<120>>),
      TextBlock(<<"S", "K", "I", "L", "L", "S">>, <<180>>),
      TextBlock(<<"x", "y", " ", "z">>, <<>>),
      TextBlock(<<" ", " ">>, <<120>>),
      Heading(1, <<"H">>, <<>>, FALSE),
      Paragraph(<< LineF(<<"a", "b", " ", "c">>, 100, 50, 12, <<120>>) >>, <<>>, <<120>>, FALSE, FALSE),
      Paragraph(<< LineF(<<"a", "n", "d", " ", "d">>, 85, 50, 12, <<120>>) >>, <<>>, <<120>>, TRUE, FALSE) }

IdsOfKind(h, kind) == { id \in 1..Len(h) : h[id].kind = kind }

\* the Paragraph objects that are blocks of some Document
DocumentParagraphs(h) ==
    { id \in IdsOfKind(h, "Paragraph") :
        \E d \in IdsOfKind(h, "Document") : \E i \in 1..Len(h[d].blocks) : h[d].blocks[i] = id }

\* last_call.seq counts the calls made so far
CallsLeft == last_call.seq < MaxCalls

DetectInit ==
    /\ \E blocks \in SeqsUpTo(DetectBlockPool, MaxDocBlocks) :
         heap = blocks \o << Document(<<>>, [i \in 1..Len(blocks) |-> i], <<>>) >>
    /\ content_aware_merging \in BOOLEAN
    /\ last_call = NoCall
    /\ ListIdle
    /\ BlockIdle
    /\ RenderIdle
    /\ PipeIdle
    /\ FunIdle

\* result = paragraph_detector.detect_paragraphs_in_document(d)
DetectParagraphsInDocument ==
    /\ CallsLeft
    /\ \E d \in IdsOfKind(heap, "Document") :
         LET r == detect_paragraphs_in_document(heap, d, content_aware_merging)
         IN  /\ heap' = r.heap
             /\ last_call' = [op |-> "detect_paragraphs_in_document", args |-> << d >>,
                              result |-> << r.result >>, seq |-> last_call.seq + 1]
    /\ UNCHANGED content_aware_merging
    /\ UNCHANGED detectOthers

\* result = heading_detector.detect_headings_in_document(d)
DetectHeadingsInDocument ==
    /\ CallsLeft
    /\ \E d \in IdsOfKind(heap, "Document") :
         LET r == detect_headings_in_document(heap, d)
         IN  /\ heap' = r.heap
             /\ last_call' = [op |-> "detect_headings_in_document", args |-> << d >>,
                              result |-> << r.result >>, seq |-> last_call.seq + 1]
    /\ UNCHANGED content_aware_merging
    /\ UNCHANGED detectOthers

\* result = paragraph_detector.convert_text_block_to_paragraph(t)
ConvertTextBlockToParagraph ==
    /\ CallsLeft
    /\ \E t \in IdsOfKind(heap, "TextBlock") :
         LET a == Alloc(heap, convert_text_block_to_paragraph(heap[t]))
         IN  /\ heap' = a.heap
             /\ last_call' = [op |-> "convert_text_block_to_paragraph", args |-> << t >>,
                              result |-> << a.id >>, seq |-> last_call.seq + 1]
    /\ UNCHANGED content_aware_merging
    /\ UNCHANGED detectOthers

\* result = paragraph_detector.merge_continuous_paragraphs([p, q])
MergeContinuousParagraphs ==
    /\ CallsLeft
    /\ \E p, q \in DocumentParagraphs(heap) :
         LET r == merge_continuous_paragraphs(heap, << p, q >>, content_aware_merging)
         IN  /\ p # q
             /\ heap' = r.heap
             /\ last_call' = [op |-> "merge_continuous_paragraphs", args |-> << p, q >>,
                              result |-> r.result, seq |-> last_call.seq + 1]
    /\ UNCHANGED content_aware_merging
    /\ UNCHANGED detectOthers

DetectNext ==
    \/ DetectParagraphsInDocument
    \/ DetectHeadingsInDocument
    \/ ConvertTextBlockToParagraph
    \/ MergeContinuousParagraphs

SpecDetect == DetectInit /\ [][DetectNext]_vars

\* ------------------------------------------------ one run of the pipeline
MaxPdfLines == 3

DefaultIndentationThreshold == 5
DefaultMaxNestingLevel == 3

\* the kinds of line a file is made of: body text, a bullet, a nested
\* bullet, a section title in a larger font, a closing sentence
PdfLineKinds ==
    { [text |-> <<"a", "b", " ", "c", "\n">>, x0 |-> 50, font_size |-> 120],
      [text |-> <<"-", " ", "x", "y", "\n">>, x0 |-> 50, font_size |-> 120],
      [text |-> <<"-", " ", "u", "v", "\n">>, x0 |-> 60, font_size |-> 120],
      [text |-> <<"S", "K", "I", "L", "L", "S", "\n">>, x0 |-> 50, font_size |-> 180],
      [text |-> <<"E", "n", "d", " ", "z", ".", "\n">>, x0 |-> 50, font_size |-> 120] }

DocumentTypes == {RESUME, ACADEMIC_PAPER, UNKNOWN}

PipeInit ==
    /\ \E kinds \in SeqsUpTo(PdfLineKinds, MaxPdfLines) :
         pdf = [i \in 1..Len(kinds) |->
                  PdfLine(kinds[i].text, kinds[i].x0, 700 - 20 * i, 12, kinds[i].font_size)]
    /\ frame = NoFrame
    /\ pc = "parse"
    /\ DetectIdle
    /\ ListIdle
    /\ BlockIdle
    /\ RenderIdle
    /\ FunIdle

\* Step 1: document = self._pdf_parser.parse_document(input_file), which
\* raises when the file cannot be read
ParseDocument ==
    /\ pc = "parse"
    /\ \/ LET r == parse_document(heap, pdf)
          IN  /\ heap' = r.heap
              /\ frame' = [frame EXCEPT !.document = << r.result >>]
              /\ pc' = "analyze"
       \/ /\ pc' = "failed"
          /\ UNCHANGED <<heap, frame>>
    /\ UNCHANGED <<pdf, content_aware_merging>>
    /\ UNCHANGED pipeOthers

\* Step 2: analyze_document_type: unknown for a document without blocks,
\* otherwise whichever type the keyword and structure scores favour
AnalyzeDocument ==
    /\ pc = "analyze"
    /\ \E t \in DocumentTypes :
         /\ heap[frame.document[1]].blocks = <<>> => t = UNKNOWN
         /\ frame' = [frame EXCEPT !.document_type = << t >>]
    /\ pc' = "paragraphs"
    /\ UNCHANGED <<pdf, heap, content_aware_merging>>
    /\ UNCHANGED pipeOthers

\* Step 3: configure the paragraph detector from the recommendations, then
\* document_with_paragraphs = detect_paragraphs_in_document(document)
DetectParagraphs ==
    /\ pc = "paragraphs"
    /\ content_aware_merging' = ~merge_aggressive(frame.document_type[1])
    /\ LET r == detect_paragraphs_in_document(heap, frame.document[1],
                                              ~merge_aggressive(frame.document_type[1]))
       IN  /\ heap' = r.heap
           /\ frame' = [frame EXCEPT !.document_with_paragraphs = << r.result >>]
    /\ pc' = "extract"
    /\ UNCHANGED pdf
    /\ UNCHANGED pipeOthers

\* Step 4, lines 226-234: extract the positioned lines; the extraction may
\* raise after any number of lines
ExtractLines ==
    /\ pc = "extract"
    /\ \E fail_after \in { <<>> } \cup { << k >> : k \in 0..Len(extract_line_elements(pdf)) } :
         LET r == extract_positioned_lines(pdf, fail_after)
         IN  frame' = [frame EXCEPT !.lines = r.lines, !.warned = r.warned]
    /\ pc' = "lists"
    /\ UNCHANGED <<pdf, heap, content_aware_merging>>
    /\ UNCHANGED pipeOthers

\* lines 243-259: the list blocks become objects, document_with_lists is a
\* new empty Document that the integration fills, and
\* document_with_paragraphs is rebound to it
IntegrateLists(items, blocks) ==
    LET block_ids == [i \in 1..Len(blocks) |-> Len(heap) + i]
        target == Len(heap) + Len(blocks) + 1
        source == frame.document_with_paragraphs[1]
    IN  /\ heap' = integrate_list_blocks_into_document(
                       heap \o blocks
                            \o << Document(heap[source].title, <<>>, heap[source].metadata) >>,
                       target, source, block_ids)
        /\ frame' = [frame EXCEPT !.list_items = << items >>,
                                  !.list_blocks = << block_ids >>,
                                  !.document_with_lists = << target >>,
                                  !.document_with_paragraphs = << target >>]
        /\ pc' = "code"

\* Step 4, lines 236-264: list detection, skipped without lines; an
\* exception of the detector ends the conversion
DetectLists ==
    /\ pc = "lists"
    /\ IF frame.lines = <<>>
       THEN pc' = "code" /\ UNCHANGED <<heap, frame>>
       ELSE \E d \in { detect_list_items_from_lines(frame.lines, DefaultIndentationThreshold,
                                                    DefaultMaxNestingLevel) } :
            \E g \in { group_list_items_into_blocks(d.list_items) } :
                IF d.error # NoError \/ g.error # NoError
                THEN pc' = "failed" /\ UNCHANGED <<heap, frame>>
                ELSE IF d.list_items = <<>>
                THEN /\ frame' = [frame EXCEPT !.list_items = << <<>> >>]
                     /\ pc' = "code"
                     /\ UNCHANGED heap
                ELSE IntegrateLists(d.list_items, g.blocks)
    /\ UNCHANGED <<pdf, content_aware_merging>>
    /\ UNCHANGED pipeOthers

\* Step 5, lines 270-301: code detection, skipped without lines; it finds
\* no block in lines that carry no font family, so lines 275-299 never run
DetectCode ==
    /\ pc = "code"
    /\ IF frame.lines = <<>>
       THEN UNCHANGED frame
       ELSE frame' = [frame EXCEPT !.code_blocks = << detect_code_blocks(frame.lines) >>]
    /\ pc' = "headings"
    /\ UNCHANGED <<pdf, heap, content_aware_merging>>
    /\ UNCHANGED pipeOthers

\* Step 6: document_with_headings = detect_headings_in_document(...)
DetectHeadings ==
    /\ pc = "headings"
    /\ \E r \in { detect_headings_in_document(heap, frame.document_with_paragraphs[1]) } :
           /\ heap' = r.heap
           /\ frame' = [frame EXCEPT !.document_with_headings = << r.result >>]
    /\ pc' = "format"
    /\ UNCHANGED <<pdf, content_aware_merging>>
    /\ UNCHANGED pipeOthers

\* Step 7: format_to_file writes document_with_headings.to_markdown() to the
\* output file, taken to be writable
FormatToFile ==
    /\ pc = "format"
    /\ frame' = [frame EXCEPT !.written =
                    << Document_to_markdown(DocumentValue(heap, frame.document_with_headings[1])) >>]
    /\ pc' = "done"
    /\ UNCHANGED <<pdf, heap, content_aware_merging>>
    /\ UNCHANGED pipeOthers

PipeNext ==
    \/ ParseDocument
    \/ AnalyzeDocument
    \/ DetectParagraphs
    \/ ExtractLines
    \/ DetectLists
    \/ DetectCode
    \/ DetectHeadings
    \/ FormatToFile

SpecPipeline == PipeInit /\ [][PipeNext]_vars

\* --------------------------------------------- calls of the code detector
MaxCodeLines == 3

\* a line as the callers that know the fonts build it: a Line with a
\* _font_family attribute
FontLine(text, x_position, font_size, font_family) ==
    [text |-> text, y_position |-> 100, x_position |-> x_position, height |-> 12,
     font_size |-> font_size, _font_family |-> font_family]

\* code in a monospace font, indented code, a blank monospace line, body
\* text, a monospace title in a large font, a composite font name, a
\* monospace line of unknown size, and a Line without font information
CodeLinePool ==
    { FontLine(<<"x", "=", "1">>, 10, <<100>>, <<"C", "o", "u", "r", "i", "e", "r">>),
      FontLine(<<" ", " ", "y">>, 18, <<100>>, <<" ", "m", "o", "n", "a", "c", "o", " ">>),
      FontLine(<<" ", " ">>, 10, <<100>>, <<"C", "o", "u", "r", "i", "e", "r">>),
      FontLine(<<"a", "b", " ", "c">>, 10, <<100>>, <<"A", "r", "i", "a", "l">>),
      FontLine(<<"H", "D", "R">>, 10, <<160>>, <<"C", "o", "u", "r", "i", "e", "r", " ", "N", "e", "w">>),
      FontLine(<<"x", "=", "1">>, 12, <<140>>, <<"C", "o", "u", "r", "i", "e", "r", "-", "B", "o", "l", "d">>),
      FontLine(<<" ", " ", "y">>, 10, <<>>, <<"C", "o", "u", "r", "i", "e", "r">>),
      LineF(<<"a", "b", " ", "c">>, 100, 10, 12, <<100>>) }

CodeInit ==
    /\ input \in { [lines |-> ls] : ls \in SeqsUpTo(CodeLinePool, MaxCodeLines) }
    /\ output = <<>>
    /\ ListIdle
    /\ BlockIdle
    /\ RenderIdle
    /\ DetectIdle
    /\ PipeIdle

\* result = detector.is_code_context(lines, target_line_index)
IsCodeContext ==
    /\ output = <<>>
    /\ \E target_line_index \in -1..Len(input.lines) :
         output' = [op |-> "is_code_context", index |-> target_line_index,
                    result |-> is_code_context(input.lines, target_line_index)]
    /\ UNCHANGED input
    /\ UNCHANGED funOthers

\* result = detector.detect_code_blocks(lines)
DetectCodeBlocks ==
    /\ output = <<>>
    /\ output' = [op |-> "detect_code_blocks", index |-> 0,
                  result |-> detect_code_blocks(input.lines)]
    /\ UNCHANGED input
    /\ UNCHANGED funOthers

CodeNext == IsCodeContext \/ DetectCodeBlocks

SpecCode == CodeInit /\ [][CodeNext]_vars

\* ------------------------------------------ calls of the heading detector
\* the contents a block can carry: section vocabulary, alone, with contact
\* characters and in title case; names of two and four words, with a name
\* suffix, with a business word, with a digit, with terminal punctuation and
\* without a capital; capitals outside the vocabulary; body text; blank
\* text; contact information; five words in capitals; 301 characters; a
\* section keyword inside a longer word; and a name of more than 50
\* characters
HeadingContentPool ==
    {
      <<"S", "K", "I", "L", "L", "S">>,
      <<"S", "K", "I", "L", "L", "S", " ", "(", "a", "-", "b", ")">>,
      <<"W", "o", "r", "k", " ", "E", "x", "p", "e", "r", "i", "e", "n", "c", "e">>,
      <<"A", "b", " ", "C", "d">>,
      <<"A", "b", " ", "C", "d", " ", "E", "f", " ", "G", "h">>,
      <<"P", "e", "t", "e", "r", " ", "M", "a", "n", "a", "g", "e", "r">>,
      <<"A", "b", " ", "M", "a", "n", "a", "g", "e", "r">>,
      <<"A", "b", " ", "C", "1">>,
      <<"A", "b", " ", "C", "d", ".">>,
      <<"a", "b", " ", "C", "d">>,
      <<"N", "O", "T", "E", "S">>,
      <<"a", "b", " ", "c">>,
      <<" ", " ">>,
      <<"a", "@", "b", " ", "(", "c", ")">>,
      <<"A", " ", "B", " ", "C", " ", "D", " ", "E">>,
      <<"A", "b", " ", "C", "d", " ", "E", "f", " ", "J", "r">>,
      [i \in 1..301 |-> "A"],
      <<"S", "K", "I", "L", "L", "S">> \o [i \in 1..22 |-> "X"],
      <<"A">> \o [i \in 1..26 |-> "b"] \o <<" ", "C">> \o [i \in 1..25 |-> "d"] }

\* None, and sizes in tenths of a point
HeadingFontSizePool ==
    { <<>>, <<100>>, <<105>>, <<110>>, <<115>>, <<125>>, <<130>>, <<140>>, <<150>>, <<200>> }

BaselinePool == { 100, 120 }

\* a TextBlock, and a bold Heading where its content is allowed
HeadingBlockPool ==
    { TextBlock(content, fs) : content \in HeadingContentPool, fs \in HeadingFontSizePool }
    \cup { Heading(3, content, fs, TRUE) :
             content \in { c \in HeadingContentPool : HeadingValid(3, c) },
             fs \in HeadingFontSizePool }

HeadingInit ==
    /\ input \in { [block |-> b, baseline_font_size |-> base] :
                     b \in HeadingBlockPool, base \in BaselinePool }
    /\ output = <<>>
    /\ ListIdle
    /\ BlockIdle
    /\ RenderIdle
    /\ DetectIdle
    /\ PipeIdle

\* result = detector._determine_heading_level(block, baseline_font_size)
DetermineHeadingLevel ==
    /\ output = <<>>
    /\ output' = [op |-> "determine_heading_level",
                  result |-> determine_heading_level(input.block, input.baseline_font_size)]
    /\ UNCHANGED input
    /\ UNCHANGED funOthers

\* result = detector._is_likely_name_or_title(block.content)
IsLikelyNameOrTitle ==
    /\ output = <<>>
    /\ output' = [op |-> "is_likely_name_or_title",
                  result |-> is_likely_name_or_title(Block_content(input.block))]
    /\ UNCHANGED input
    /\ UNCHANGED funOthers

\* the levels a Heading is constructed with
HeadingLevelPool == -1..8

\* Heading(level, content, font_size, is_bold) that ignores the upper limit
NewHeading_NoUpperLimit(level, content, fs, bold) ==
    IF ~(1 <= level) \/ Strip(content) = <<>>
    THEN [error |-> ValueError, result |-> <<>>]
    ELSE [error |-> NoError, result |-> << Heading(level, content, fs, bold) >>]

\* Heading(level, content, font_size, is_bold) with __post_init__: the new
\* Heading, or the ValueError that leaves no object
NewHeading(level, content, fs, bold) ==
    IF ~(1 <= level /\ level <= 6) \/ Strip(content) = <<>>
    THEN [error |-> ValueError, result |-> <<>>]
    ELSE [error |-> NoError, result |-> << Heading(level, content, fs, bold) >>]

\* heading = Heading(level, block.content, block.font_size)
ConstructHeading ==
    /\ output = <<>>
    /\ \E level \in HeadingLevelPool :
         \E r \in { NewHeading(level, Block_content(input.block), input.block.font_size, FALSE) } :
            output' = [op |-> "Heading", level |-> level, error |-> r.error, result |-> r.result]
    /\ UNCHANGED input
    /\ UNCHANGED funOthers

\* one turn of the loop of detect_headings_in_document (lines 101-124) on
\* the block: the block added to new_document
DetectHeadingOfBlock ==
    /\ output = <<>>
    /\ \E r \in { HeadingLoop(<< input.block >>, << 1 >>, input.baseline_font_size, <<>>) } :
         output' = [op |-> "detect_headings_in_document", result |-> r.heap[r.result[1]]]
    /\ UNCHANGED input
    /\ UNCHANGED funOthers

HeadingNext ==
    \/ DetermineHeadingLevel
    \/ IsLikelyNameOrTitle
    \/ ConstructHeading
    \/ DetectHeadingOfBlock

SpecHeading == HeadingInit /\ [][HeadingNext]_vars

\* ------------------------------ calls of the paragraph detector on values
MaxParaBlocks == 3

\* body text; continuations half a point above and below it, in a title
\* size and without a font size; blank text; a heading; and a paragraph
ParaBlockPool ==
    { TextBlock(<<"a", "b", " ", "c">>, <<120>>),
      TextBlock(<<"a", "n", "d", " ", "d">>, <<125>>),
      TextBlock(<<"a", "n", "d", " ", "d">>, <<115>>),
      TextBlock(<<"a", "n", "d", " ", "d">>, <<180>>),
      TextBlock(<<"a", "n", "d", " ", "d">>, <<>>),
      TextBlock(<<" ", " ">>, <<120>>),
      Heading(1, <<"H">>, <<>>, FALSE),
      Paragraph(<< LineF(<<"a", "b", " ", "c">>, 100, 50, 12, <<120>>) >>, <<>>, <<120>>, FALSE, FALSE) }

ParaInit ==
    /\ input \in { [blocks |-> blocks, content_aware_merging |-> content_aware] :
                     blocks \in SeqsUpTo(ParaBlockPool, MaxParaBlocks),
                     content_aware \in BOOLEAN }
    /\ output = <<>>
    /\ ListIdle
    /\ BlockIdle
    /\ RenderIdle
    /\ DetectIdle
    /\ PipeIdle

\* the objects of the call: the blocks, then the Document that holds them
ParaHeap ==
    input.blocks \o << Document(<<>>, [i \in 1..Len(input.blocks) |-> i], <<>>) >>

\* result = ParagraphDetector(content_aware_merging=...)
\*              .detect_paragraphs_in_document(Document(blocks=blocks))
DetectParagraphsOfBlocks ==
    /\ output = <<>>
    /\ \E r \in { detect_paragraphs_in_document(ParaHeap, Len(input.blocks) + 1,
                                                input.content_aware_merging) } :
         output' = [op |-> "detect_paragraphs_in_document", heap |-> r.heap,
                    result |-> r.result]
    /\ UNCHANGED input
    /\ UNCHANGED funOthers

\* result = ParagraphDetector()._group_consecutive_text_blocks(blocks)
GroupConsecutiveTextBlocks ==
    /\ output = <<>>
    /\ output' = [op |-> "group_consecutive_text_blocks", heap |-> ParaHeap,
                  result |-> group_consecutive_text_blocks(ParaHeap,
                                                           ParaHeap[Len(ParaHeap)].blocks)]
    /\ UNCHANGED input
    /\ UNCHANGED funOthers

ParaNext == DetectParagraphsOfBlocks \/ GroupConsecutiveTextBlocks

SpecParagraph == ParaInit /\ [][ParaNext]_vars

\* ---------------------------------------------------- language_detector.py
\* CodeLanguage, in declaration order
PYTHON == "python"
JAVASCRIPT == "javascript"
JAVA == "java"
CPP == "cpp"
SQL == "sql"
HTML == "html"
JSON == "json"

CodeLanguages == << PYTHON, JAVASCRIPT, JAVA, CPP, SQL, HTML, JSON, UNKNOWN_LANGUAGE >>

\* the character classes \w and \s of the syntax patterns, for characters
\* already lowercased (the patterns are compiled with re.IGNORECASE)
WordChars == LowerChars \cup DigitChars \cup {"_"}
SpaceChars == {" ", "\n"}

\* the syntax patterns as trees: a literal text, a character class, a
\* negated class, any character but a newline, a concatenation, an
\* alternation, and the repetitions * + ?
Lit(text) == [t |-> "lit", text |-> text]
In(cs) == [t |-> "in", cs |-> cs]
NotIn(cs) == [t |-> "notin", cs |-> cs]
AnyChar == [t |-> "any"]
Cat(rs) == [t |-> "cat", rs |-> rs]
Alt(rs) == [t |-> "alt", rs |-> rs]
Star(r) == [t |-> "star", r |-> r]
Plus(r) == [t |-> "plus", r |-> r]
Opt(r) == [t |-> "opt", r |-> r]

\* the positions at which a match of r that starts at a position of starts
\* can end (a position is the index of the next character to read); s is
\* lowercased
RECURSIVE MatchEnds(_, _, _)
MatchEnds(r, s, starts) ==
    CASE r.t = "lit" ->
           { p + Len(r.text) : p \in { q \in starts : /\ q + Len(r.text) - 1 <= Len(s)
                                                      /\ SubSeq(s, q, q + Len(r.text) - 1) = r.text } }
      [] r.t = "in" -> { p + 1 : p \in { q \in starts : q <= Len(s) /\ s[q] \in r.cs } }
      [] r.t = "notin" -> { p + 1 : p \in { q \in starts : q <= Len(s) /\ s[q] \notin r.cs } }
      [] r.t = "any" -> { p + 1 : p \in { q \in starts : q <= Len(s) /\ s[q] # "\n" } }
      [] r.t = "cat" ->
           IF r.rs = <<>> THEN starts
           ELSE MatchEnds(Cat(Tail(r.rs)), s, MatchEnds(Head(r.rs), s, starts))
      [] r.t = "alt" -> UNION { MatchEnds(r.rs[k], s, starts) : k \in 1..Len(r.rs) }
      [] r.t = "opt" -> starts \cup MatchEnds(r.r, s, starts)
      [] r.t = "plus" -> MatchEnds(Star(r.r), s, MatchEnds(r.r, s, starts))
      [] r.t = "star" ->
           With(MatchEnds(r.r, s, starts), LAMBDA more :
               IF more \subseteq starts THEN starts ELSE MatchEnds(r, s, starts \cup more))

\* compiled_pattern.search(code_content) is not None
PatternSearch(compiled_pattern, code_content) ==
    With(ToLower(code_content), LAMBDA s : MatchEnds(compiled_pattern, s, 1..(Len(s) + 1)) # {})

\* re.search(rf'\b{re.escape(keyword.lower())}\b', content_lower): every
\* keyword starts and ends with a word character
KeywordSearch(keyword, content_lower) ==
    With(ToLower(keyword), LAMBDA k :
        \E i \in 1..(Len(content_lower) - Len(k) + 1) :
            /\ SubSeq(content_lower, i, i + Len(k) - 1) = k
            /\ (i = 1 \/ ~IsWordChar(content_lower[i - 1]))
            /\ (i + Len(k) > Len(content_lower) \/ ~IsWordChar(content_lower[i + Len(k)])))


PythonKeywords ==
    {
      <<"F", "a", "l", "s", "e">>, <<"N", "o", "n", "e">>, <<"T", "r", "u", "e">>,
      <<"_", "_", "i", "n", "i", "t", "_", "_">>, <<"_", "_", "m", "a", "i", "n", "_", "_">>,
      <<"a", "n", "d">>, <<"b", "r", "e", "a", "k">>, <<"c", "l", "a", "s", "s">>,
      <<"c", "o", "n", "t", "i", "n", "u", "e">>, <<"d", "e", "f">>, <<"e", "l", "i", "f">>,
      <<"e", "l", "s", "e">>, <<"e", "x", "c", "e", "p", "t">>,
      <<"f", "i", "n", "a", "l", "l", "y">>, <<"f", "o", "r">>, <<"f", "r", "o", "m">>,
      <<"i", "f">>, <<"i", "m", "p", "o", "r", "t">>, <<"i", "n">>, <<"i", "s">>,
      <<"l", "a", "m", "b", "d", "a">>, <<"n", "o", "t">>, <<"o", "r">>, <<"p", "a", "s", "s">>,
      <<"p", "r", "i", "n", "t">>, <<"r", "e", "t", "u", "r", "n">>, <<"s", "e", "l", "f">>,
      <<"t", "r", "y">>, <<"w", "h", "i", "l", "e">>, <<"w", "i", "t", "h">>,
      <<"y", "i", "e", "l", "d">> }


PythonSyntaxPatterns ==
    <<
      \* def\s+\w+\s*\(
      Cat(<<Lit(<<"d", "e", "f">>), Plus(In(SpaceChars)), Plus(In(WordChars)),
      Star(In(SpaceChars)), Lit(<<"(">>)>>),
      \* class\s+\w+\s*[:\(]
      Cat(<<Lit(<<"c", "l", "a", "s", "s">>), Plus(In(SpaceChars)), Plus(In(WordChars)),
      Star(In(SpaceChars)), In({":", "("})>>),
      \* import\s+\w+
      Cat(<<Lit(<<"i", "m", "p", "o", "r", "t">>), Plus(In(SpaceChars)), Plus(In(WordChars))>>),
      \* from\s+\w+\s+import
      Cat(<<Lit(<<"f", "r", "o", "m">>), Plus(In(SpaceChars)), Plus(In(WordChars)),
      Plus(In(SpaceChars)), Lit(<<"i", "m", "p", "o", "r", "t">>)>>),
      \* if\s+__name__\s*==\s*["\']__main__["\']
      Cat(<<Lit(<<"i", "f">>), Plus(In(SpaceChars)), Lit(<<"_", "_", "n", "a", "m", "e", "_",
      "_">>), Star(In(SpaceChars)), Lit(<<"=", "=">>), Star(In(SpaceChars)), In({"\"", "'"}),
      Lit(<<"_", "_", "m", "a", "i", "n", "_", "_">>), In({"\"", "'"})>>),
      \* :\s*\n\s+
      Cat(<<Lit(<<":">>), Star(In(SpaceChars)), Lit(<<"\n">>), Plus(In(SpaceChars))>>) >>


JavascriptKeywords ==
    {
      <<"b", "r", "e", "a", "k">>, <<"c", "a", "s", "e">>, <<"c", "a", "t", "c", "h">>,
      <<"c", "o", "n", "s", "o", "l", "e", ".", "l", "o", "g">>, <<"c", "o", "n", "s", "t">>,
      <<"c", "o", "n", "t", "i", "n", "u", "e">>, <<"d", "e", "f", "a", "u", "l", "t">>,
      <<"d", "o">>, <<"d", "o", "c", "u", "m", "e", "n", "t">>, <<"e", "l", "s", "e">>,
      <<"f", "a", "l", "s", "e">>, <<"f", "i", "n", "a", "l", "l", "y">>, <<"f", "o", "r">>,
      <<"f", "u", "n", "c", "t", "i", "o", "n">>, <<"i", "f">>,
      <<"i", "n", "s", "t", "a", "n", "c", "e", "o", "f">>, <<"l", "e", "t">>, <<"n", "e", "w">>,
      <<"n", "u", "l", "l">>, <<"p", "r", "o", "t", "o", "t", "y", "p", "e">>,
      <<"r", "e", "t", "u", "r", "n">>, <<"s", "w", "i", "t", "c", "h">>, <<"t", "h", "i", "s">>,
      <<"t", "h", "r", "o", "w">>, <<"t", "r", "u", "e">>, <<"t", "r", "y">>,
      <<"t", "y", "p", "e", "o", "f">>, <<"u", "n", "d", "e", "f", "i", "n", "e", "d">>,
      <<"v", "a", "r">>, <<"w", "h", "i", "l", "e">>, <<"w", "i", "n", "d", "o", "w">> }


JavascriptSyntaxPatterns ==
    <<
      \* function\s+\w*\s*\(
      Cat(<<Lit(<<"f", "u", "n", "c", "t", "i", "o", "n">>), Plus(In(SpaceChars)),
      Star(In(WordChars)), Star(In(SpaceChars)), Lit(<<"(">>)>>),
      \* \w+\s*=>\s*[\{\w]
      Cat(<<Plus(In(WordChars)), Star(In(SpaceChars)), Lit(<<"=", ">">>), Star(In(SpaceChars)),
      In(WordChars \cup {"{"})>>),
      \* (var|let|const)\s+\w+
      Cat(<<Alt(<<Lit(<<"v", "a", "r">>), Lit(<<"l", "e", "t">>), Lit(<<"c", "o", "n", "s",
      "t">>)>>), Plus(In(SpaceChars)), Plus(In(WordChars))>>),
      \* console\.log\s*\(
      Cat(<<Lit(<<"c", "o", "n", "s", "o", "l", "e", ".", "l", "o", "g">>), Star(In(SpaceChars)),
      Lit(<<"(">>)>>),
      \* document\.\w+
      Cat(<<Lit(<<"d", "o", "c", "u", "m", "e", "n", "t", ".">>), Plus(In(WordChars))>>),
      \* \{\s*[\w\s,:"\']+\s*\}
      Cat(<<Lit(<<"{">>), Star(In(SpaceChars)), Plus(In(WordChars \cup SpaceChars \cup {",", ":",
      "\"", "'"})), Star(In(SpaceChars)), Lit(<<"}">>)>>) >>


JavaKeywords ==
    {
      <<"S", "t", "r", "i", "n", "g">>,
      <<"S", "y", "s", "t", "e", "m", ".", "o", "u", "t", ".", "p", "r", "i", "n", "t", "l", "n">>,
      <<"a", "b", "s", "t", "r", "a", "c", "t">>, <<"b", "o", "o", "l", "e", "a", "n">>,
      <<"b", "r", "e", "a", "k">>, <<"b", "y", "t", "e">>, <<"c", "a", "s", "e">>,
      <<"c", "a", "t", "c", "h">>, <<"c", "h", "a", "r">>, <<"c", "l", "a", "s", "s">>,
      <<"c", "o", "n", "t", "i", "n", "u", "e">>, <<"d", "e", "f", "a", "u", "l", "t">>,
      <<"d", "o">>, <<"d", "o", "u", "b", "l", "e">>, <<"e", "l", "s", "e">>,
      <<"e", "x", "t", "e", "n", "d", "s">>, <<"f", "a", "l", "s", "e">>,
      <<"f", "i", "n", "a", "l">>, <<"f", "i", "n", "a", "l", "l", "y">>,
      <<"f", "l", "o", "a", "t">>, <<"f", "o", "r">>, <<"i", "f">>,
      <<"i", "m", "p", "l", "e", "m", "e", "n", "t", "s">>, <<"i", "n", "t">>,
      <<"i", "n", "t", "e", "r", "f", "a", "c", "e">>, <<"l", "o", "n", "g">>, <<"n", "e", "w">>,
      <<"n", "u", "l", "l">>, <<"p", "r", "i", "v", "a", "t", "e">>,
      <<"p", "r", "o", "t", "e", "c", "t", "e", "d">>, <<"p", "u", "b", "l", "i", "c">>,
      <<"r", "e", "t", "u", "r", "n">>, <<"s", "h", "o", "r", "t">>,
      <<"s", "t", "a", "t", "i", "c">>, <<"s", "u", "p", "e", "r">>,
      <<"s", "w", "i", "t", "c", "h">>, <<"t", "h", "i", "s">>, <<"t", "h", "r", "o", "w">>,
      <<"t", "h", "r", "o", "w", "s">>, <<"t", "r", "u", "e">>, <<"t", "r", "y">>,
      <<"v", "o", "i", "d">>, <<"w", "h", "i", "l", "e">> }


JavaSyntaxPatterns ==
    <<
      \* public\s+(static\s+)?void\s+main
      Cat(<<Lit(<<"p", "u", "b", "l", "i", "c">>), Plus(In(SpaceChars)), Opt(Cat(<<Lit(<<"s", "t",
      "a", "t", "i", "c">>), Plus(In(SpaceChars))>>)), Lit(<<"v", "o", "i", "d">>),
      Plus(In(SpaceChars)), Lit(<<"m", "a", "i", "n">>)>>),
      \* public\s+class\s+\w+
      Cat(<<Lit(<<"p", "u", "b", "l", "i", "c">>), Plus(In(SpaceChars)), Lit(<<"c", "l", "a", "s",
      "s">>), Plus(In(SpaceChars)), Plus(In(WordChars))>>),
      \* System\.out\.print
      Lit(<<"s", "y", "s", "t", "e", "m", ".", "o", "u", "t", ".", "p", "r", "i", "n", "t">>),
      \* String\[\]\s+\w+
      Cat(<<Lit(<<"s", "t", "r", "i", "n", "g", "[", "]">>), Plus(In(SpaceChars)),
      Plus(In(WordChars))>>),
      \* @\w+
      Cat(<<Lit(<<"@">>), Plus(In(WordChars))>>) >>


CppKeywords ==
    {
      <<"a", "u", "t", "o">>, <<"b", "o", "o", "l">>, <<"b", "r", "e", "a", "k">>,
      <<"c", "a", "s", "e">>, <<"c", "a", "t", "c", "h">>, <<"c", "h", "a", "r">>,
      <<"c", "i", "n">>, <<"c", "l", "a", "s", "s">>, <<"c", "o", "n", "s", "t">>,
      <<"c", "o", "n", "t", "i", "n", "u", "e">>, <<"c", "o", "u", "t">>,
      <<"d", "e", "f", "a", "u", "l", "t">>, <<"d", "e", "l", "e", "t", "e">>, <<"d", "o">>,
      <<"d", "o", "u", "b", "l", "e">>, <<"e", "l", "s", "e">>, <<"e", "n", "d", "l">>,
      <<"f", "a", "l", "s", "e">>, <<"f", "l", "o", "a", "t">>, <<"f", "o", "r">>, <<"i", "f">>,
      <<"i", "n", "c", "l", "u", "d", "e">>, <<"i", "n", "t">>,
      <<"n", "a", "m", "e", "s", "p", "a", "c", "e">>, <<"n", "e", "w">>,
      <<"n", "u", "l", "l", "p", "t", "r">>, <<"p", "r", "i", "n", "t", "f">>,
      <<"p", "r", "i", "v", "a", "t", "e">>, <<"p", "r", "o", "t", "e", "c", "t", "e", "d">>,
      <<"p", "u", "b", "l", "i", "c">>, <<"r", "e", "t", "u", "r", "n">>,
      <<"s", "t", "a", "t", "i", "c">>, <<"s", "t", "d">>, <<"s", "t", "r", "i", "n", "g">>,
      <<"s", "t", "r", "u", "c", "t">>, <<"s", "w", "i", "t", "c", "h">>, <<"t", "h", "i", "s">>,
      <<"t", "h", "r", "o", "w">>, <<"t", "r", "u", "e">>, <<"t", "r", "y">>,
      <<"u", "s", "i", "n", "g">>, <<"v", "e", "c", "t", "o", "r">>,
      <<"v", "i", "r", "t", "u", "a", "l">>, <<"v", "o", "i", "d">>, <<"w", "h", "i", "l", "e">> }


CppSyntaxPatterns ==
    <<
      \* #include\s*<[\w\.]+>
      Cat(<<Lit(<<"#", "i", "n", "c", "l", "u", "d", "e">>), Star(In(SpaceChars)), Lit(<<"<">>),
      Plus(In(WordChars \cup {"."})), Lit(<<">">>)>>),
      \* std::\w+
      Cat(<<Lit(<<"s", "t", "d", ":", ":">>), Plus(In(WordChars))>>),
      \* \w+\s*\*+\s*\w+
      Cat(<<Plus(In(WordChars)), Star(In(SpaceChars)), Plus(Lit(<<"*">>)), Star(In(SpaceChars)),
      Plus(In(WordChars))>>),
      \* cout\s*<<
      Cat(<<Lit(<<"c", "o", "u", "t">>), Star(In(SpaceChars)), Lit(<<"<", "<">>)>>),
      \* cin\s*>>
      Cat(<<Lit(<<"c", "i", "n">>), Star(In(SpaceChars)), Lit(<<">", ">">>)>>),
      \* ::\w+
      Cat(<<Lit(<<":", ":">>), Plus(In(WordChars))>>) >>


SqlKeywords ==
    {
      <<"A", "L", "L">>, <<"A", "L", "T", "E", "R">>, <<"A", "N", "D">>, <<"A", "V", "G">>,
      <<"B", "E", "T", "W", "E", "E", "N">>, <<"B", "Y">>, <<"C", "A", "S", "E">>,
      <<"C", "O", "U", "N", "T">>, <<"C", "R", "E", "A", "T", "E">>,
      <<"D", "E", "L", "E", "T", "E">>, <<"D", "I", "S", "T", "I", "N", "C", "T">>,
      <<"D", "R", "O", "P">>, <<"E", "L", "S", "E">>, <<"E", "N", "D">>,
      <<"E", "X", "I", "S", "T", "S">>, <<"F", "R", "O", "M">>, <<"G", "R", "O", "U", "P">>,
      <<"H", "A", "V", "I", "N", "G">>, <<"I", "N">>, <<"I", "N", "D", "E", "X">>,
      <<"I", "N", "N", "E", "R">>, <<"I", "N", "S", "E", "R", "T">>, <<"I", "S">>,
      <<"J", "O", "I", "N">>, <<"L", "E", "F", "T">>, <<"L", "I", "K", "E">>, <<"M", "A", "X">>,
      <<"M", "I", "N">>, <<"N", "O", "T">>, <<"N", "U", "L", "L">>, <<"O", "N">>, <<"O", "R">>,
      <<"O", "R", "D", "E", "R">>, <<"O", "U", "T", "E", "R">>, <<"R", "I", "G", "H", "T">>,
      <<"S", "E", "L", "E", "C", "T">>, <<"S", "U", "M">>, <<"T", "A", "B", "L", "E">>,
      <<"T", "H", "E", "N">>, <<"U", "N", "I", "O", "N">>, <<"U", "P", "D", "A", "T", "E">>,
      <<"V", "I", "E", "W">>, <<"W", "H", "E", "N">>, <<"W", "H", "E", "R", "E">> }


SqlSyntaxPatterns ==
    <<
      \* SELECT\s+[\w\s,\*]+\s+FROM
      Cat(<<Lit(<<"s", "e", "l", "e", "c", "t">>), Plus(In(SpaceChars)),
      Plus(In(WordChars \cup SpaceChars \cup {",", "*"})), Plus(In(SpaceChars)), Lit(<<"f", "r",
      "o", "m">>)>>),
      \* INSERT\s+INTO\s+\w+
      Cat(<<Lit(<<"i", "n", "s", "e", "r", "t">>), Plus(In(SpaceChars)), Lit(<<"i", "n", "t",
      "o">>), Plus(In(SpaceChars)), Plus(In(WordChars))>>),
      \* UPDATE\s+\w+\s+SET
      Cat(<<Lit(<<"u", "p", "d", "a", "t", "e">>), Plus(In(SpaceChars)), Plus(In(WordChars)),
      Plus(In(SpaceChars)), Lit(<<"s", "e", "t">>)>>),
      \* DELETE\s+FROM\s+\w+
      Cat(<<Lit(<<"d", "e", "l", "e", "t", "e">>), Plus(In(SpaceChars)), Lit(<<"f", "r", "o",
      "m">>), Plus(In(SpaceChars)), Plus(In(WordChars))>>),
      \* CREATE\s+TABLE\s+\w+
      Cat(<<Lit(<<"c", "r", "e", "a", "t", "e">>), Plus(In(SpaceChars)), Lit(<<"t", "a", "b", "l",
      "e">>), Plus(In(SpaceChars)), Plus(In(WordChars))>>),
      \* \w+\s*=\s*[\'"][^\'"]*[\'"]
      Cat(<<Plus(In(WordChars)), Star(In(SpaceChars)), Lit(<<"=">>), Star(In(SpaceChars)), In({"'",
      "\""}), Star(NotIn({"'", "\""})), In({"'", "\""})>>) >>


HtmlKeywords ==
    {
      <<"D", "O", "C", "T", "Y", "P", "E">>, <<"a">>, <<"b", "o", "d", "y">>,
      <<"b", "u", "t", "t", "o", "n">>, <<"d", "i", "v">>, <<"f", "o", "r", "m">>, <<"h", "1">>,
      <<"h", "2">>, <<"h", "3">>, <<"h", "4">>, <<"h", "5">>, <<"h", "6">>, <<"h", "e", "a", "d">>,
      <<"h", "t", "m", "l">>, <<"i", "m", "g">>, <<"i", "n", "p", "u", "t">>, <<"l", "i">>,
      <<"l", "i", "n", "k">>, <<"m", "e", "t", "a">>, <<"o", "l">>,
      <<"o", "p", "t", "i", "o", "n">>, <<"p">>, <<"s", "c", "r", "i", "p", "t">>,
      <<"s", "e", "l", "e", "c", "t">>, <<"s", "p", "a", "n">>, <<"s", "t", "y", "l", "e">>,
      <<"t", "a", "b", "l", "e">>, <<"t", "d">>, <<"t", "e", "x", "t", "a", "r", "e", "a">>,
      <<"t", "h">>, <<"t", "i", "t", "l", "e">>, <<"t", "r">>, <<"u", "l">> }


HtmlSyntaxPatterns ==
    <<
      \* <\s*\w+[^>]*>
      Cat(<<Lit(<<"<">>), Star(In(SpaceChars)), Plus(In(WordChars)), Star(NotIn({">"})),
      Lit(<<">">>)>>),
      \* <\s*/\s*\w+\s*>
      Cat(<<Lit(<<"<">>), Star(In(SpaceChars)), Lit(<<"/">>), Star(In(SpaceChars)),
      Plus(In(WordChars)), Star(In(SpaceChars)), Lit(<<">">>)>>),
      \* <!DOCTYPE\s+html>
      Cat(<<Lit(<<"<", "!", "d", "o", "c", "t", "y", "p", "e">>), Plus(In(SpaceChars)), Lit(<<"h",
      "t", "m", "l", ">">>)>>),
      \* \w+\s*=\s*["\'][^"\']*["\']
      Cat(<<Plus(In(WordChars)), Star(In(SpaceChars)), Lit(<<"=">>), Star(In(SpaceChars)),
      In({"\"", "'"}), Star(NotIn({"\"", "'"})), In({"\"", "'"})>>),
      \* <!--.*?-->
      Cat(<<Lit(<<"<", "!", "-", "-">>), Star(AnyChar), Lit(<<"-", "-", ">">>)>>) >>


JsonKeywords ==
    {
      <<"f", "a", "l", "s", "e">>, <<"n", "u", "l", "l">>, <<"t", "r", "u", "e">> }


JsonSyntaxPatterns ==
    <<
      \* \{\s*"[\w\s]+"\s*:\s*["\w\[\{]
      Cat(<<Lit(<<"{">>), Star(In(SpaceChars)), Lit(<<"\"">>), Plus(In(WordChars \cup SpaceChars)),
      Lit(<<"\"">>), Star(In(SpaceChars)), Lit(<<":">>), Star(In(SpaceChars)),
      In(WordChars \cup {"\"", "[", "{"})>>),
      \* "\w+"\s*:\s*\{
      Cat(<<Lit(<<"\"">>), Plus(In(WordChars)), Lit(<<"\"">>), Star(In(SpaceChars)), Lit(<<":">>),
      Star(In(SpaceChars)), Lit(<<"{">>)>>),
      \* "\w+"\s*:\s*\[
      Cat(<<Lit(<<"\"">>), Plus(In(WordChars)), Lit(<<"\"">>), Star(In(SpaceChars)), Lit(<<":">>),
      Star(In(SpaceChars)), Lit(<<"[">>)>>),
      \* "\w+"\s*:\s*(true|false|null|\d+)
      Cat(<<Lit(<<"\"">>), Plus(In(WordChars)), Lit(<<"\"">>), Star(In(SpaceChars)), Lit(<<":">>),
      Star(In(SpaceChars)), Alt(<<Lit(<<"t", "r", "u", "e">>), Lit(<<"f", "a", "l", "s", "e">>),
      Lit(<<"n", "u", "l", "l">>), Plus(In(DigitChars))>>)>>),
      \* \[\s*\{
      Cat(<<Lit(<<"[">>), Star(In(SpaceChars)), Lit(<<"{">>)>>) >>


\* self.patterns: LanguagePattern(keywords, syntax_patterns, distinctive_chars), all of
\* weight 1.0
LanguagePatterns ==
    [language \in { CodeLanguages[i] : i \in 1..7 } |->
       CASE language = PYTHON ->
              [keywords |-> PythonKeywords, syntax_patterns |-> PythonSyntaxPatterns,
               distinctive_chars |-> {"#", ":"}]
         [] language = JAVASCRIPT ->
              [keywords |-> JavascriptKeywords, syntax_patterns |-> JavascriptSyntaxPatterns,
               distinctive_chars |-> {";", "{", "}"}]
         [] language = JAVA ->
              [keywords |-> JavaKeywords, syntax_patterns |-> JavaSyntaxPatterns,
               distinctive_chars |-> {";", "{", "}"}]
         [] language = CPP ->
              [keywords |-> CppKeywords, syntax_patterns |-> CppSyntaxPatterns,
               distinctive_chars |-> {"#", "&", "*", "<", ">"}]
         [] language = SQL ->
              [keywords |-> SqlKeywords, syntax_patterns |-> SqlSyntaxPatterns,
               distinctive_chars |-> {";"}]
         [] language = HTML ->
              [keywords |-> HtmlKeywords, syntax_patterns |-> HtmlSyntaxPatterns,
               distinctive_chars |-> {"\"", "'", "/", "<", "=", ">"}]
         [] language = JSON ->
              [keywords |-> JsonKeywords, syntax_patterns |-> JsonSyntaxPatterns,
               distinctive_chars |-> {"\"", ",", ":", "[", "]", "{", "}"}]]

\* a confidence score is the fraction num / (10 * ks * len), with ks the
\* number of keywords times the number of syntax patterns of the language
\* and len the length of the text
ZeroScore == [num |-> 0, ks |-> 1, len |-> 1]

ScoreLess(a, b) == a.num * b.ks * b.len < b.num * a.ks * a.len

\* score > 0.1
ScoreAboveThreshold(a) == a.num > a.ks * a.len

\* code_content.count(char)
CountChar(s, c) == Cardinality({ i \in 1..Len(s) : s[i] = c })

\* the sum of code_content.count(char) over the distinctive characters
RECURSIVE CharScore(_, _)
CharScore(s, chars) ==
    IF chars = {} THEN 0
    ELSE LET c == CHOOSE x \in chars : TRUE
         IN  CountChar(s, c) + CharScore(s, chars \ {c})

\* get_confidence_score: max(best individual score * 0.7, weighted average)
\* * weight, at most 1.0, from keyword_confidence = k / K, syntax_confidence
\* = m / S and char_confidence = min(c / len, 1.0)
get_confidence_score(code_content, language) ==
    IF language = UNKNOWN_LANGUAGE \/ IsBlank(code_content) THEN ZeroScore
    ELSE IF language \notin DOMAIN LanguagePatterns THEN ZeroScore
    ELSE With(LanguagePatterns[language], LAMBDA pattern :
         With(ToLower(code_content), LAMBDA content_lower :
             LET total_keywords == Cardinality(pattern.keywords)
                 keyword_matches ==
                     Cardinality({ keyword \in pattern.keywords :
                                     KeywordSearch(keyword, content_lower) })
                 total_patterns == Len(pattern.syntax_patterns)
                 syntax_matches ==
                     Cardinality({ i \in 1..total_patterns :
                                     PatternSearch(pattern.syntax_patterns[i], code_content) })
                 len == Len(code_content)
                 char_score == IF pattern.distinctive_chars = {} THEN 0
                               ELSE Min(CharScore(code_content, pattern.distinctive_chars), len)
                 K == IF total_keywords > 0 THEN total_keywords ELSE 1
                 S == IF total_patterns > 0 THEN total_patterns ELSE 1
                 keyword_part == keyword_matches * S * len
                 syntax_part == syntax_matches * K * len
                 char_part == char_score * K * S
                 best_individual_score == Max(Max(keyword_part, syntax_part), char_part)
                 weighted_average == 5 * keyword_part + 3 * syntax_part + 2 * char_part
             IN  [num |-> Min(Max(7 * best_individual_score, weighted_average), 10 * K * S * len),
                  ks |-> K * S, len |-> len]))

\* max(scores.keys(), key=...) over a dict filled in declaration order: the
\* first language whose score is maximal
FirstMax(scores) ==
    CHOOSE i \in 1..Len(scores) :
        /\ \A j \in 1..Len(scores) : ~ScoreLess(scores[i], scores[j])
        /\ \A j \in 1..(i - 1) : ScoreLess(scores[j], scores[i])

\* the last language whose score is maximal
LastMax(scores) ==
    CHOOSE i \in 1..Len(scores) :
        /\ \A j \in 1..Len(scores) : ~ScoreLess(scores[i], scores[j])
        /\ \A j \in (i + 1)..Len(scores) : ScoreLess(scores[j], scores[i])

\* the languages detect_language scores: CodeLanguage without UNKNOWN
ScoredLanguages == SelectSeq(CodeLanguages, LAMBDA language : language # UNKNOWN_LANGUAGE)

\* detect_language with ties going to the language declared last
detect_language_LastMax(code_content) ==
    IF IsBlank(code_content) THEN UNKNOWN_LANGUAGE
    ELSE With([i \in 1..Len(ScoredLanguages) |->
                 get_confidence_score(code_content, ScoredLanguages[i])],
              LAMBDA scores :
                  IF ScoreAboveThreshold(scores[LastMax(scores)])
                  THEN ScoredLanguages[LastMax(scores)]
                  ELSE UNKNOWN_LANGUAGE)

\* detect_language; the results of detect_language_from_keywords and
\* detect_language_from_syntax are not used
detect_language(code_content) ==
    IF IsBlank(code_content) THEN UNKNOWN_LANGUAGE
    ELSE With([i \in 1..Len(ScoredLanguages) |->
                 get_confidence_score(code_content, ScoredLanguages[i])],
              LAMBDA scores :
                  IF ScoreAboveThreshold(scores[FirstMax(scores)])
                  THEN ScoredLanguages[FirstMax(scores)]
                  ELSE UNKNOWN_LANGUAGE)

\* ------------------------------------------ calls of the language detector
\* braces and a semicolon, which two languages score alike; one semicolon
\* in seven and in ten characters; blank and empty text; a word; a line of
\* each language; a declaration three languages score alike; and text over
\* two lines
LanguageTextPool ==
    {
      <<"{", "}", ";">>,
      <<"a", "b", "c", "d", "e", "f", ";">>,
      <<" ", " ">>,
      <<>>,
      <<"x", "y", "z">>,
      <<"d", "e", "f", " ", "f", "(", "x", ")", ":">>,
      <<"S", "E", "L", "E", "C", "T", " ", "a", " ", "F", "R", "O", "M", " ", "t", ";">>,
      <<"<", "p", ">", "h", "i", "<", "/", "p", ">">>,
      <<"{", "\"", "a", "\"", ":", " ", "1", "}">>,
      <<"i", "n", "t", " ", "x", ";">>,
      <<"a", ";", "b", "c", "d", "e", "f", "g", "h", "i">>,
      <<"v", "a", "r", " ", "x", " ", "=", " ", "1", ";">>,
      <<"t", "r", "u", "e">>,
      <<"a", "*", "b">>,
      <<"i", "f", " ", "x", ":", "\n", " ", " ", "y">>,
      <<"x", " ", "=", " ", "'", "a", "'">> }

LanguageInit ==
    /\ input \in { [code_content |-> code_content] : code_content \in LanguageTextPool }
    /\ output = <<>>
    /\ ListIdle
    /\ BlockIdle
    /\ RenderIdle
    /\ DetectIdle
    /\ PipeIdle

\* result = detector.detect_language(code_content)
DetectLanguage ==
    /\ output = <<>>
    /\ output' = [op |-> "detect_language", language |-> UNKNOWN_LANGUAGE,
                  result |-> detect_language(input.code_content)]
    /\ UNCHANGED input
    /\ UNCHANGED funOthers

\* result = detector.get_confidence_score(code_content, language)
GetConfidenceScore ==
    /\ output = <<>>
    /\ \E i \in 1..Len(CodeLanguages) :
         output' = [op |-> "get_confidence_score", language |-> CodeLanguages[i],
                    result |-> get_confidence_score(input.code_content, CodeLanguages[i])]
    /\ UNCHANGED input
    /\ UNCHANGED funOthers

LanguageNext == DetectLanguage \/ GetConfidenceScore

SpecLanguage == LanguageInit /\ [][LanguageNext]_vars

\* ================================================================ claims

\* C1: add_item called with a level-0 item whose marker type differs from the
\* block's list_type raises an error and leaves items exactly as before.
C1_MismatchRejected ==
    (/\ call.op = "add_item"
     /\ call.item[1].level = 0
     /\ call.item[1].marker.marker_type # block.list_type)
    => (call.error = ValueError /\ block.items = call.before)

C1_Witness ==
    /\ call.op = "add_item"
    /\ call.item[1].level = 0
    /\ call.item[1].marker.marker_type # block.list_type
    /\ call.error = ValueError
    /\ Len(call.before) >= 1

\* number of lines a nested list hung under item i contributes to the rendering
NestedLineCount(blk, i) ==
    IF (i - 1) \in DOMAIN blk.nested_lists
    THEN LET m == ListBlock_to_markdown(blk.nested_lists[i - 1])
         IN  IF m = <<>> THEN 0 ELSE Len(SplitLines(m))
    ELSE 0

RECURSIVE LineIndex(_, _)
LineIndex(blk, i) == IF i = 1 THEN 1 ELSE LineIndex(blk, i - 1) + NestedLineCount(blk, i - 1) + 1

\* C2: to_markdown() of an ordered ListBlock numbers the k-th item (in list
\* order) among the items of one nesting level with k, counting from 1 per
\* level, whatever the items' marker symbols and contents are.
C2_OrderedNumberedPerLevel ==
    (call.op = "to_markdown" /\ block.list_type = ORDERED)
    => \A i \in 1..Len(block.items) :
         LET item == block.items[i]
             k == Cardinality({ j \in 1..i : block.items[j].level = item.level })
         IN  SplitLines(call.result)[LineIndex(block, i)]
               = Indent(item.level) \o Str(k) \o <<".", " ">> \o item.content

\* position in list_items of the first item of the block item i belongs to,
\* when a block starts exactly where the marker type changes or the level gap
\* exceeds 2
RECURSIVE BlockStart(_, _)
BlockStart(items, i) ==
    IF i = 1 THEN 1
    ELSE IF \/ items[i].marker.marker_type # items[i-1].marker.marker_type
            \/ Abs(items[i].level - items[i-1].level) > 2
         THEN i
         ELSE BlockStart(items, i - 1)

\* C8: group_list_items_into_blocks starts a new ListBlock at item i > 0 iff
\* the marker type differs from item i-1's or the level gap exceeds 2;
\* otherwise item i joins the block of item i-1.
C8_BlockBoundaries ==
    lpc = "grouped" =>
      LET n == Len(list_items)
          starts == { i \in 1..n : BlockStart(list_items, i) = i }
          blockOf(i) == Cardinality({ j \in starts : j <= i })
      IN  /\ Len(list_blocks) = Cardinality(starts)
          /\ \A i \in 1..n :
               LET b == list_blocks[blockOf(i)]
                   pos == i - BlockStart(list_items, i) + 1
               IN  /\ pos <= Len(b.items)
                   /\ b.items[pos] = list_items[i]
                   /\ (i + 1 \in starts \/ i = n) => Len(b.items) = pos

C8_Witness ==
    /\ lpc = "grouped"
    /\ Len(list_items) = 3
    /\ Len(list_blocks) = 2
    /\ \E i \in 2..3 :
         /\ list_items[i].marker.marker_type = list_items[i-1].marker.marker_type
         /\ Abs(list_items[i].level - list_items[i-1].level) > 2

C10_LevelWithinMax ==
    lpc \in {"detected", "grouped"} =>
      \A k \in 1..Len(list_items) :
        list_items[k].level >= 0 /\ list_items[k].level <= max_nesting_level

C10_Witness ==
    /\ lpc = "detected"
    /\ \E k \in 1..Len(list_items) :
         /\ raw_levels[k] > max_nesting_level
         /\ list_items[k].level = max_nesting_level
         /\ Len(list_items[k].lines) > 1

\* what block i of the document contributes to the output ("" when skipped)
EmittedText(i) == RStripNewlines(Block_to_markdown(document.blocks[i]))

Emitted(i) == ~IsBlank(EmittedText(i))

IsLastEmitted(i) == \A j \in (i + 1)..Len(document.blocks) : ~Emitted(j)

\* offset in the output at which the text of block i ends, when each emitted
\* Heading before it takes two more characters and each other emitted block one
RECURSIVE EndOffset(_)
EndOffset(i) ==
    IF i = 0
    THEN (IF document.title # <<>> /\ document.title[1] # <<>>
          THEN Len(document.title[1]) + 4 ELSE 0)
    ELSE IF ~Emitted(i) THEN EndOffset(i - 1)
    ELSE LET prev == { j \in 1..(i - 1) : Emitted(j) }
             last == IF prev = {} THEN 0 ELSE CHOOSE j \in prev : \A k \in prev : k <= j
             gap == IF last = 0 THEN 0
                    ELSE IF document.blocks[last].kind = "Heading" THEN 2 ELSE 1
         IN  EndOffset(i - 1) + gap + Len(EmittedText(i))

\* the output has exactly one blank line right after offset e
OneBlankLineAt(out, e) ==
    /\ Len(out) >= e + 2
    /\ out[e + 1] = "\n"
    /\ out[e + 2] = "\n"
    /\ (Len(out) >= e + 3 => out[e + 3] # "\n")

\* the output goes on to the next line right after offset e, with no blank line
NoBlankLineAt(out, e) ==
    /\ Len(out) >= e + 2
    /\ out[e + 1] = "\n"
    /\ out[e + 2] # "\n"

\* C7 as stated: in the rendered Markdown every Heading block's output is
\* followed by exactly one blank line, and two consecutive emitted blocks are
\* separated by a single newline when the first is not a Heading.
C7_BlankLineAfterEveryHeading ==
    rendered # <<>> =>
      \A i \in 1..Len(document.blocks) :
        Emitted(i) =>
          IF document.blocks[i].kind = "Heading"
          THEN OneBlankLineAt(rendered[1], EndOffset(i))
          ELSE ~IsLastEmitted(i) => NoBlankLineAt(rendered[1], EndOffset(i))

\* C7 amended: every Heading block that is followed by another emitted block
\* is followed by exactly one blank line; a Heading that is the last emitted
\* block ends the output (trailing whitespace is stripped); consecutive
\* emitted blocks whose first is not a Heading are separated by one newline.
C7_BlankLineAfterInnerHeading ==
    rendered # <<>> =>
      \A i \in 1..Len(document.blocks) :
        Emitted(i) =>
          IF IsLastEmitted(i)
          THEN Len(rendered[1]) <= EndOffset(i)
          ELSE /\ SubSeq(rendered[1], EndOffset(i) - Len(EmittedText(i)) + 1, EndOffset(i))
                    = EmittedText(i)
               /\ IF document.blocks[i].kind = "Heading"
                  THEN OneBlankLineAt(rendered[1], EndOffset(i))
                  ELSE NoBlankLineAt(rendered[1], EndOffset(i))

C7_Witness ==
    /\ rendered # <<>>
    /\ Len(document.blocks) = 3
    /\ document.blocks[1].kind = "TextBlock" /\ Emitted(1)
    /\ document.blocks[2].kind = "Heading"
    /\ document.blocks[3].kind = "Paragraph" /\ Emitted(3)
    /\ document.title # <<>>

\* position of the object id in a block sequence that holds it
IndexOf(blocks, id) == CHOOSE i \in 1..Len(blocks) : blocks[i] = id

\* the list block list_block of target stands where the source text it
\* absorbed stood: a source block kept in target is on the same side of
\* list_block as it was of every source block that list_block absorbed
SplicedInPlace(h, source, target, list_block) ==
    \A a, j \in 1..Len(source) :
        ( /\ is_list_content(h[source[a]], list_item_texts(<< h[list_block] >>))
          /\ \E k \in 1..Len(target) : target[k] = source[j] )
        => /\ j > a => IndexOf(target, source[j]) > IndexOf(target, list_block)
           /\ j < a => IndexOf(target, source[j]) < IndexOf(target, list_block)

\* C3: when the list step integrates list blocks, every ListBlock is spliced
\* into the block sequence at the position of the text it replaces: blocks
\* that came after the absorbed text still come after the ListBlock, blocks
\* that came before it still come before it
C3_ListBlocksSplicedInPlace ==
    [][(pc = "lists" /\ frame'.document_with_lists # <<>>)
        => \A i \in 1..Len(frame'.list_blocks[1]) :
             SplicedInPlace(heap', heap[frame.document_with_paragraphs[1]].blocks,
                            heap'[frame'.document_with_lists[1]].blocks,
                            frame'.list_blocks[1][i])]_vars

\* C4: once the line extraction has raised (the warning is logged), there
\* are no lines, neither list detection nor code detection runs, the
\* paragraphs are detected, the conversion does not fail, and at its end the
\* headings are detected and the output is written
C4_ExtractionFailureTolerated ==
    frame.warned =>
        /\ frame.lines = <<>>
        /\ frame.list_items = <<>>
        /\ frame.code_blocks = <<>>
        /\ frame.document_with_paragraphs # <<>>
        /\ pc \in {"lists", "code", "headings", "format", "done"}
        /\ pc = "done" => frame.document_with_headings # <<>> /\ frame.written # <<>>

\* a file with a bullet line was converted although the extraction raised
C4_Witness ==
    /\ pc = "done"
    /\ frame.warned
    /\ frame.written # <<>>
    /\ \E i \in 1..Len(pdf) : StartsWith(pdf[i].text, <<"-", " ">>)

\* the objects handed to the call c: its arguments and, for a Document
\* argument, the blocks of that document
InputObjects(c, h) ==
    { c.args[i] : i \in 1..Len(c.args) }
    \cup UNION { IF h[c.args[i]].kind = "Document"
                 THEN { h[c.args[i]].blocks[j] : j \in 1..Len(h[c.args[i]].blocks) }
                 ELSE {} : i \in 1..Len(c.args) }

\* C5: no stage changes an object it was handed: across every detector call
\* (detect_paragraphs_in_document, detect_headings_in_document,
\* convert_text_block_to_paragraph, merge_continuous_paragraphs) each input
\* object has the same field values after the call as before it
C5_NoStageMutatesInput ==
    [][\A id \in InputObjects(last_call', heap) : heap'[id] = heap[id]]_vars

\* C6: detect_paragraphs_in_document(d) and detect_headings_in_document(d)
\* never return the object d itself
C6_ReturnsNewDocument ==
    last_call.op \in {"detect_paragraphs_in_document", "detect_headings_in_document"}
        => last_call.result[1] # last_call.args[1]

\* a line that is a list marker followed by whitespace only
IsMarkerOnlyLine(line) ==
    /\ detect_list_marker(line) # <<>>
    /\ IsBlank(extract_content_from_line(line, detect_list_marker(line)[1]))

\* C11: a line that is a list marker followed only by whitespace makes
\* detect_list_items_from_lines produce a ListItem whose content is exactly
\* "[empty]", and neither the detection nor the grouping raises
C11_EmptyMarkerPlaceholder ==
    /\ lpc # "raised"
    /\ lpc \in {"detected", "grouped"} =>
         \A i \in 1..Len(lines) :
           IsMarkerOnlyLine(lines[i]) =>
             \E k \in 1..Len(list_items) :
               /\ list_items[k].lines[1] = lines[i]
               /\ list_items[k].content = EmptyPlaceholder

\* line i (from 1) of ls passes both tests of the detection loop
IsCodeLine(ls, i) == is_monospace_line(ls[i]) /\ is_code_context(ls, i - 1)

\* the maximal runs of lines passing both tests, in order, as pairs <<first, last>>
RECURSIVE CodeRuns(_, _)
CodeRuns(ls, from) ==
    IF from > Len(ls) THEN <<>>
    ELSE IF ~IsCodeLine(ls, from) THEN CodeRuns(ls, from + 1)
    ELSE LET last == CHOOSE e \in from..Len(ls) :
                        /\ \A j \in from..e : IsCodeLine(ls, j)
                        /\ (e = Len(ls) \/ ~IsCodeLine(ls, e + 1))
         IN  << <<from, last>> >> \o CodeRuns(ls, last + 1)

IsBlankRun(ls, run) == \A j \in run[1]..run[2] : IsBlank(ls[j].text)

\* C12: detect_code_blocks returns, in input order, exactly one CodeBlock per
\* maximal contiguous run of lines that are monospace and in a code context,
\* holding exactly the lines of the run; runs of blank lines are not emitted
C12_OneBlockPerRun ==
    (output # <<>> /\ output.op = "detect_code_blocks") =>
        LET ls == input.lines
            runs == SelectSeq(CodeRuns(ls, 1), LAMBDA run : ~IsBlankRun(ls, run))
        IN  /\ Len(output.result) = Len(runs)
            /\ \A b \in 1..Len(runs) :
                 output.result[b].lines = SubSeq(ls, runs[b][1], runs[b][2])

\* two blocks found around a line that is no code, and a blank run left out
C12_Witness ==
    /\ output # <<>> /\ output.op = "detect_code_blocks"
    /\ Len(input.lines) = 3
    /\ \/ Len(output.result) = 2
       \/ /\ Len(output.result) = 1
          /\ Len(output.result[1].lines) = 2
          /\ \E run \in { <<i, i>> : i \in 1..3 } :
               IsCodeLine(input.lines, run[1]) /\ IsBlankRun(input.lines, run)

\* C13: a monospace line whose font size is not above the header threshold
\* and whose neighbours, if any, are not monospace is accepted by
\* is_code_context, wherever it sits in the list
C13_SingleLineRunAccepted ==
    (output # <<>> /\ output.op = "is_code_context") =>
        LET ls == input.lines
            i == output.index + 1
        IN  (/\ i \in 1..Len(ls)
             /\ is_monospace_line(ls[i])
             /\ (ls[i].font_size = <<>> \/ ls[i].font_size[1] <= MaxHeaderFontSize)
             /\ (i > 1 => ~is_monospace_line(ls[i - 1]))
             /\ (i < Len(ls) => ~is_monospace_line(ls[i + 1])))
            => output.result = TRUE


\* the content _determine_heading_level classifies: block.content.strip()
ClassifiedContent == Strip(Block_content(input.block))

\* the first rule of the priority order that applies to the classified
\* content: 0 length outside [1, 300], 1 contact information, 2 section
\* vocabulary, 3 name or title, 4 the composite score
FirstApplicableRule ==
    IF Len(ClassifiedContent) < 1 \/ Len(ClassifiedContent) > 300 THEN 0
    ELSE IF is_contact_information(ClassifiedContent) THEN 1
    ELSE IF detect_resume_section_header(ClassifiedContent) # 0 THEN 2
    ELSE IF is_likely_name_or_title(ClassifiedContent) THEN 3
    ELSE 4

\* the decision of the first applicable rule
RuleDecides ==
    /\ FirstApplicableRule \in {0, 1} => output.result = 0
    /\ FirstApplicableRule = 2 => output.result = 2
    /\ FirstApplicableRule = 3 => output.result = 1
    /\ FirstApplicableRule = 4 =>
         output.result = ScoredLevel(ClassifiedContent, input.block.font_size[1],
                                     input.baseline_font_size, is_likely_bold(input.block))

HeadingLevelReturned == output # <<>> /\ output.op = "determine_heading_level"

\* C14 as stated: the classification of any block applies the rules in the
\* order length gate, contact information, section vocabulary (level 2
\* whatever the font size), name or title (level 1), composite score, and the
\* first applicable rule decides.  A block without a font size is not a
\* heading even when its content is in the section vocabulary.
C14_PriorityOrderAnyBlock ==
    HeadingLevelReturned =>
        /\ FirstApplicableRule \in {0, 1} => output.result = 0
        /\ FirstApplicableRule = 2 => output.result = 2
        /\ FirstApplicableRule = 3 => output.result = 1
        /\ FirstApplicableRule = 4 => output.result # 1

\* C14 amended: a block without a font size (None or 0) is never a heading;
\* for a block with a font size the rules apply in the order length gate,
\* contact information, section vocabulary, name or title, composite score,
\* and the first applicable rule decides, so that content matching contact
\* information and the vocabulary is not a heading and content matching the
\* vocabulary and the name pattern gets level 2.
C14_PriorityOrder ==
    HeadingLevelReturned =>
        IF has_no_font_size(input.block) THEN output.result = 0 ELSE RuleDecides

\* section vocabulary in title case with a font size: level 2, not level 1
C14_Witness ==
    /\ HeadingLevelReturned
    /\ ~has_no_font_size(input.block)
    /\ detect_resume_section_header(ClassifiedContent) # 0
    /\ is_likely_name_or_title(ClassifiedContent)
    /\ ~is_contact_information(ClassifiedContent)
    /\ output.result = 2


\* the content _is_likely_name_or_title examines: content.strip()
NameContent == Strip(Block_content(input.block))

\* the conditions of the name/title heuristic as C15 lists them
NameConditions ==
    /\ Len(Words(NameContent)) >= 2
    /\ Len(Words(NameContent)) <= 4
    /\ \A i \in 1..Len(Words(NameContent)) : IsUpperChar(Words(NameContent)[i][1])
    /\ Len(NameContent) <= 50
    /\ \A i \in 1..Len(NameContent) : NameContent[i] \notin DigitChars
    /\ ~EndsWithTerminal(NameContent)
    /\ \A word \in BusinessWords : ~Contains(ToLower(NameContent), word)

\* C15: the name/title heuristic accepts a content exactly when it has 2 to
\* 4 words that each start with an uppercase letter, has at most 50
\* characters, no digit, no terminal punctuation and no business-role word.
\* The code accepts "Peter Manager" (the suffix "pe" is looked up before the
\* business words) and rejects four words without a name suffix.
C15_NameOrTitleIff ==
    (output # <<>> /\ output.op = "is_likely_name_or_title")
    => (output.result <=> NameConditions)

\* the score of the scoring step, as tenths times the baseline, from the
\* rational ratio r = font size / baseline
ClaimedScore(content, fs, base, bold) ==
    (IF bold THEN 5 * base ELSE 0)
    + (IF IsUpperStr(content) /\ Len(Words(content)) <= 4 THEN 10 * base ELSE 0)
    + (IF 100 * fs > 105 * base THEN Min(20 * (fs - base), 10 * base) ELSE 0)

\* the level C16 derives from the score; 0 for no heading
ClaimedLevel(content, fs, base, bold) ==
    LET score == ClaimedScore(content, fs, base, bold)
        style == (IF bold THEN 5 ELSE 0)
                 + (IF IsUpperStr(content) /\ Len(Words(content)) <= 4 THEN 10 ELSE 0)
    IN  IF score >= 15 * base
        THEN IF is_major_section_keyword(content) THEN 2
             ELSE IF 10 * fs >= 13 * base THEN 3
             ELSE IF style >= 10 THEN 4
             ELSE 5
        ELSE IF score >= 8 * base /\ 10 * fs > 11 * base THEN 6
        ELSE 0

\* the block has a font size and none of the rules before the score applies
ReachesScoring == ~has_no_font_size(input.block) /\ FirstApplicableRule = 4

\* C16: a block that reaches the scoring step gets the level the score
\* 0.5 bold + 1.0 capitals of at most four words + min((r - 1) * 2, 1) for
\* r > 1.05 gives: from 1.5 on, 2 with a major-section keyword, else 3 for
\* r >= 1.3, else 4 for a caps/bold part of at least 1.0, else 5; from 0.8 on
\* with r > 1.1, level 6; otherwise no heading.  At a score of exactly 0.8
\* (14pt on a 10pt baseline) the code does not return level 6.
C16_ScoreLevels ==
    (HeadingLevelReturned /\ ReachesScoring)
    => output.result = ClaimedLevel(ClassifiedContent, input.block.font_size[1],
                                    input.baseline_font_size, is_likely_bold(input.block))


ParagraphsReturned == output # <<>> /\ output.op = "detect_paragraphs_in_document"

\* the blocks of the returned Document, as object ids: an id up to the
\* number of input blocks is an input block, a higher one a new object
OutBlocks == output.heap[output.result].blocks

IsInputBlock(id) == id <= Len(input.blocks)

RECURSIVE FlattenSeq(_)
FlattenSeq(ss) == IF ss = <<>> THEN <<>> ELSE Head(ss) \o FlattenSeq(Tail(ss))

\* the input TextBlocks that yield a line (one each: no content of the pool
\* has a line break), in input order
SourceBlocks ==
    SelectSeq([i \in 1..Len(input.blocks) |-> i],
              LAMBDA i : input.blocks[i].kind = "TextBlock" /\ ~IsBlank(input.blocks[i].content))

\* for every line of a new Paragraph, in output order, the position of the
\* Paragraph that holds it
LineOwners ==
    FlattenSeq([j \in 1..Len(OutBlocks) |->
                  IF IsInputBlock(OutBlocks[j]) THEN <<>>
                  ELSE [k \in 1..Len(output.heap[OutBlocks[j]].lines) |-> j]])

\* the font sizes of two blocks are known and differ by more than 0.5pt
FontSizesDiffer(b1, b2) ==
    /\ b1.font_size # <<>>
    /\ b2.font_size # <<>>
    /\ Abs(b1.font_size[1] - b2.font_size[1]) > 5

\* C17: no Paragraph returned by detect_paragraphs_in_document holds lines of
\* two TextBlocks that were adjacent in the input and whose known font sizes
\* differ by more than 0.5pt.  A merged paragraph keeps the font size of its
\* first block, so a chain of merges joins such blocks.
C17_NoMergeAcrossFontSizes ==
    ParagraphsReturned =>
        /\ Len(LineOwners) = Len(SourceBlocks)
        /\ \A j \in 1..(Len(SourceBlocks) - 1) :
             (LineOwners[j] = LineOwners[j + 1] /\ SourceBlocks[j + 1] = SourceBlocks[j] + 1)
             => ~FontSizesDiffer(input.blocks[SourceBlocks[j]], input.blocks[SourceBlocks[j + 1]])

\* number of blocks other than TextBlocks before input position i, and of
\* input blocks before output position j
BarriersBeforeIn(i) == Cardinality({ m \in 1..(i - 1) : input.blocks[m].kind # "TextBlock" })
BarriersBeforeOut(j) == Cardinality({ m \in 1..(j - 1) : IsInputBlock(OutBlocks[m]) })

\* the texts of the TextBlocks that yield a line and lie after k barriers
InTexts(k) ==
    LET src == SelectSeq(SourceBlocks, LAMBDA i : BarriersBeforeIn(i) = k)
    IN  [t \in 1..Len(src) |-> input.blocks[src[t]].content]

\* the texts of the lines of the new Paragraphs that lie after k barriers
OutTexts(k) ==
    FlattenSeq([j \in 1..Len(OutBlocks) |->
                  IF IsInputBlock(OutBlocks[j]) \/ BarriersBeforeOut(j) # k THEN <<>>
                  ELSE [m \in 1..Len(output.heap[OutBlocks[j]].lines) |->
                          output.heap[OutBlocks[j]].lines[m].text]])

\* C18: detect_paragraphs_in_document returns every block that is not a
\* TextBlock as the same object with the same field values, in the same
\* order, and the new Paragraphs between two such blocks hold exactly the
\* lines of the TextBlocks between them: no Paragraph holds text from both
\* sides of such a block.
C18_NonTextBarrier ==
    ParagraphsReturned =>
        /\ SelectSeq(OutBlocks, IsInputBlock)
             = SelectSeq([i \in 1..Len(input.blocks) |-> i],
                         LAMBDA i : input.blocks[i].kind # "TextBlock")
        /\ \A i \in 1..Len(input.blocks) :
             input.blocks[i].kind # "TextBlock" => output.heap[i] = input.blocks[i]
        /\ \A k \in 0..Len(input.blocks) : OutTexts(k) = InTexts(k)

\* text and a continuation of it that would merge, kept apart by a heading
C18_Witness ==
    /\ ParagraphsReturned
    /\ input.content_aware_merging
    /\ Len(input.blocks) = 3
    /\ input.blocks[1].kind = "TextBlock"
    /\ input.blocks[2].kind = "Heading"
    /\ input.blocks[3].kind = "TextBlock"
    /\ ~IsBlank(input.blocks[1].content)
    /\ ~IsBlank(input.blocks[3].content)
    /\ should_merge_paragraphs_enhanced(convert_text_block_to_paragraph(input.blocks[1]),
                                        convert_text_block_to_paragraph(input.blocks[3]))
    /\ Len(OutBlocks) = 3
    /\ OutBlocks[2] = 2


LanguageReturned == output # <<>> /\ output.op = "detect_language"

\* the confidence score of the analysed text for a language
ScoreOf(language) == get_confidence_score(input.code_content, language)

\* position of a language in the declaration of CodeLanguage
DeclaredAt(language) == CHOOSE i \in 1..Len(CodeLanguages) : CodeLanguages[i] = language

KnownLanguages == { CodeLanguages[i] : i \in 1..Len(CodeLanguages) } \ { UNKNOWN_LANGUAGE }

\* C19: detect_language returns a language other than UNKNOWN only if its
\* confidence score is above 0.1 and no language has a higher score; among
\* the languages of maximal score it returns the one declared first; for a
\* blank text or a maximal score of at most 0.1 it returns UNKNOWN.
C19_ArgmaxAboveThreshold ==
    LanguageReturned =>
        /\ output.result # UNKNOWN_LANGUAGE =>
             /\ output.result \in KnownLanguages
             /\ ScoreAboveThreshold(ScoreOf(output.result))
             /\ \A other \in KnownLanguages :
                  /\ ~ScoreLess(ScoreOf(output.result), ScoreOf(other))
                  /\ DeclaredAt(other) < DeclaredAt(output.result)
                       => ScoreLess(ScoreOf(other), ScoreOf(output.result))
        /\ (\/ IsBlank(input.code_content)
            \/ \A language \in KnownLanguages : ~ScoreAboveThreshold(ScoreOf(language)))
           => output.result = UNKNOWN_LANGUAGE

\* two languages share the maximal score, above 0.1, and the one declared
\* first is returned
C19_Witness ==
    /\ LanguageReturned
    /\ output.result # UNKNOWN_LANGUAGE
    /\ ScoreAboveThreshold(ScoreOf(output.result))
    /\ \E other \in KnownLanguages :
         /\ DeclaredAt(other) > DeclaredAt(output.result)
         /\ ~ScoreLess(ScoreOf(other), ScoreOf(output.result))
         /\ ~ScoreLess(ScoreOf(output.result), ScoreOf(other))

\* ---------------------------------------------------- document_analyzer.py
BUSINESS_DOCUMENT == "business_document"
MANUAL == "manual"

\* self.resume_keywords
resume_keywords ==
    { <<"e", "x", "p", "e", "r", "i", "e", "n", "c", "e">>,
      <<"e", "d", "u", "c", "a", "t", "i", "o", "n">>,
      <<"s", "k", "i", "l", "l", "s">>,
      <<"s", "u", "m", "m", "a", "r", "y">>,
      <<"o", "b", "j", "e", "c", "t", "i", "v", "e">>,
      <<"q", "u", "a", "l", "i", "f", "i", "c", "a", "t", "i", "o", "n", "s">>,
      <<"a", "c", "h", "i", "e", "v", "e", "m", "e", "n", "t", "s">>,
      <<"c", "e", "r", "t", "i", "f", "i", "c", "a", "t", "i", "o", "n", "s">>,
      <<"a", "w", "a", "r", "d", "s">>,
      <<"p", "r", "o", "j", "e", "c", "t", "s">>,
      <<"c", "a", "r", "e", "e", "r">>,
      <<"p", "r", "o", "f", "e", "s", "s", "i", "o", "n", "a", "l">>,
      <<"e", "m", "p", "l", "o", "y", "m", "e", "n", "t">>,
      <<"w", "o", "r", "k">>,
      <<"b", "a", "c", "k", "g", "r", "o", "u", "n", "d">>,
      <<"e", "x", "p", "e", "r", "t", "i", "s", "e">>,
      <<"a", "c", "c", "o", "m", "p", "l", "i", "s", "h", "m", "e", "n", "t", "s">>,
      <<"t", "e", "c", "h", "n", "i", "c", "a", "l">> }

\* self.academic_keywords
academic_keywords ==
    { <<"a", "b", "s", "t", "r", "a", "c", "t">>,
      <<"i", "n", "t", "r", "o", "d", "u", "c", "t", "i", "o", "n">>,
      <<"m", "e", "t", "h", "o", "d", "o", "l", "o", "g", "y">>,
      <<"r", "e", "s", "u", "l", "t", "s">>,
      <<"c", "o", "n", "c", "l", "u", "s", "i", "o", "n">>,
      <<"r", "e", "f", "e", "r", "e", "n", "c", "e", "s">>,
      <<"b", "i", "b", "l", "i", "o", "g", "r", "a", "p", "h", "y">>,
      <<"l", "i", "t", "e", "r", "a", "t", "u", "r", "e">>,
      <<"r", "e", "s", "e", "a", "r", "c", "h">>,
      <<"s", "t", "u", "d", "y">>,
      <<"a", "n", "a", "l", "y", "s", "i", "s">>,
      <<"f", "i", "n", "d", "i", "n", "g", "s">>,
      <<"d", "i", "s", "c", "u", "s", "s", "i", "o", "n">>,
      <<"h", "y", "p", "o", "t", "h", "e", "s", "i", "s">>,
      <<"e", "x", "p", "e", "r", "i", "m", "e", "n", "t", "a", "l">> }

\* self.business_keywords
business_keywords ==
    { <<"e", "x", "e", "c", "u", "t", "i", "v", "e">>,
      <<"s", "u", "m", "m", "a", "r", "y">>,
      <<"o", "v", "e", "r", "v", "i", "e", "w">>,
      <<"p", "r", "o", "p", "o", "s", "a", "l">>,
      <<"b", "u", "d", "g", "e", "t">>,
      <<"r", "e", "v", "e", "n", "u", "e">>,
      <<"p", "r", "o", "f", "i", "t">>,
      <<"q", "u", "a", "r", "t", "e", "r", "l", "y">>,
      <<"a", "n", "n", "u", "a", "l">>,
      <<"s", "t", "r", "a", "t", "e", "g", "i", "c">>,
      <<"o", "b", "j", "e", "c", "t", "i", "v", "e", "s">>,
      <<"g", "o", "a", "l", "s">>,
      <<"m", "e", "t", "r", "i", "c", "s">>,
      <<"p", "e", "r", "f", "o", "r", "m", "a", "n", "c", "e">>,
      <<"r", "o", "i">> }

\* self.manual_keywords
manual_keywords ==
    { <<"i", "n", "s", "t", "a", "l", "l", "a", "t", "i", "o", "n">>,
      <<"c", "o", "n", "f", "i", "g", "u", "r", "a", "t", "i", "o", "n">>,
      <<"s", "e", "t", "u", "p">>,
      <<"t", "r", "o", "u", "b", "l", "e", "s", "h", "o", "o", "t", "i", "n", "g">>,
      <<"c", "h", "a", "p", "t", "e", "r">>,
      <<"s", "e", "c", "t", "i", "o", "n">>,
      <<"p", "r", "o", "c", "e", "d", "u", "r", "e">>,
      <<"s", "t", "e", "p", "s">>,
      <<"i", "n", "s", "t", "r", "u", "c", "t", "i", "o", "n", "s">>,
      <<"r", "e", "q", "u", "i", "r", "e", "m", "e", "n", "t", "s">>,
      <<"s", "p", "e", "c", "i", "f", "i", "c", "a", "t", "i", "o", "n", "s">>,
      <<"g", "u", "i", "d", "e", "l", "i", "n", "e", "s">>,
      <<"m", "a", "n", "u", "a", "l">> }

\* hasattr(block, 'content'): a field of TextBlock and Heading, a property of
\* Paragraph; a ListBlock has none
HasContent(b) == b.kind = "Paragraph" \/ "content" \in DOMAIN b

\* hasattr(block, 'content') and block.content
HasTruthyContent(b) == HasContent(b) /\ Block_content(b) # <<>>

\* the blocks of the document that pass the test, in order
BlocksWith(blocks, Test(_)) == SelectSeq(blocks, Test)

\* _extract_text_content: the stripped contents joined by a space, lowered
extract_text_content(blocks) ==
    With(BlocksWith(blocks, HasTruthyContent), LAMBDA bs :
        ToLower(Join([i \in 1..Len(bs) |-> Strip(Block_content(bs[i]))], <<" ">>)))

\* the sequence s itself, held as a tuple
AsTuple(s) == s \o <<>>

\* the positions where re.findall(r'\b\w+\b', text) starts a match: a word
\* character that no word character precedes
WordStarts(text0) ==
    With(AsTuple(text0), LAMBDA text :
        { i \in 1..Len(text) : IsWordChar(text[i]) /\ (i = 1 \/ ~IsWordChar(text[i - 1])) })

\* the position where a match of \w+ ends: a word character that no word
\* character follows
IsWordEnd(text, j) == IsWordChar(text[j]) /\ (j = Len(text) \/ ~IsWordChar(text[j + 1]))

\* the end of the match that starts at position i: the first such position
WordEnd(text, i) ==
    CHOOSE j \in i..Len(text) : IsWordEnd(text, j) /\ \A k \in i..(j - 1) : ~IsWordEnd(text, k)

\* set(re.findall(r'\b\w+\b', text))
WordSet(text0) ==
    With(AsTuple(text0), LAMBDA text : { SubSeq(text, i, WordEnd(text, i)) : i \in WordStarts(text) })

\* len(words.intersection(keywords))
KeywordCount(words, keywords) == Cardinality(words \cap keywords)

\* the least common multiple of the sizes of the four keyword sets, the
\* divisors of the keyword scores
KeywordScale == 1170

\* _analyze_keywords: the four scores, each as the number of keywords found;
\* the score is that number over the size of the keyword set
analyze_keywords(text_content) ==
    With(WordSet(ToLower(text_content)), LAMBDA words :
        [resume_keyword_score   |-> KeywordCount(words, resume_keywords),
         academic_keyword_score |-> KeywordCount(words, academic_keywords),
         business_keyword_score |-> KeywordCount(words, business_keywords),
         manual_keyword_score   |-> KeywordCount(words, manual_keywords)])

\* len(block.content.strip()) of the blocks that have a content
StrippedLengths(blocks) ==
    With(BlocksWith(blocks, HasContent), LAMBDA bs :
        [i \in 1..Len(bs) |-> Len(Strip(Block_content(bs[i])))])

\* sum(1 for item in items if test)
CountOf(items0, Test(_)) ==
    With(items0, LAMBDA items : Cardinality({ i \in 1..Len(items) : Test(items[i]) }))

\* _analyze_document_structure: the ratios as numbers of blocks, each over
\* total_blocks; without blocks the function returns no ratio at all, which
\* the classification reads as 0
analyze_document_structure(blocks) ==
    IF Len(blocks) = 0
    THEN [short_blocks |-> 0, medium_blocks |-> 0, long_blocks |-> 0]
    ELSE With(StrippedLengths(blocks), LAMBDA lengths :
            [short_blocks  |-> CountOf(lengths, LAMBDA length : length < 50),
             medium_blocks |-> CountOf(lengths, LAMBDA length : 50 <= length /\ length < 200),
             long_blocks   |-> CountOf(lengths, LAMBDA length : length >= 200)])

\* content.isupper() and len(content) > 2 for content = block.content.strip()
IsCapsBlock(b) ==
    With(Strip(Block_content(b)), LAMBDA content : IsUpperStr(content) /\ Len(content) > 2)

\* hasattr(block, 'is_bold') and getattr(block, 'is_bold', False)
IsBoldBlock(b) == "is_bold" \in DOMAIN b /\ b.is_bold

\* _analyze_formatting_patterns: caps_ratio and bold_ratio as numbers of
\* blocks over total_blocks
analyze_formatting_patterns(blocks) ==
    IF Len(blocks) = 0
    THEN [caps_blocks |-> 0, bold_blocks |-> 0]
    ELSE With(BlocksWith(blocks, HasTruthyContent), LAMBDA bs :
            [caps_blocks |-> CountOf(bs, IsCapsBlock),
             bold_blocks |-> CountOf(bs, IsBoldBlock)])

\* _analyze_document_metrics: total_words and the three length classes as 0
\* or 1
analyze_document_metrics(blocks) ==
    With(BlocksWith(blocks, HasTruthyContent), LAMBDA bs :
    With(Cardinality(WordStarts(Join([i \in 1..Len(bs) |-> Block_content(bs[i])], <<" ">>))),
         LAMBDA total_words :
        [total_words        |-> total_words,
         is_short_document  |-> IF total_words < 1000 THEN 1 ELSE 0,
         is_medium_document |-> IF 1000 <= total_words /\ total_words < 5000 THEN 1 ELSE 0,
         is_long_document   |-> IF total_words >= 5000 THEN 1 ELSE 0]))

\* the characteristics analyze_document_type collects (lines 73-93), with
\* total_blocks, the divisor of the ratios
Characteristics(blocks) ==
    [ total_blocks |-> Len(blocks),
      keywords     |-> analyze_keywords(extract_text_content(blocks)),
      structure    |-> analyze_document_structure(blocks),
      formatting   |-> analyze_formatting_patterns(blocks),
      metrics      |-> analyze_document_metrics(blocks) ]

\* the divisor of every composite score: the scores are whole numbers of
\* 1 / (1000 * KeywordScale * total_blocks)
ScoreDivisor(characteristics) ==
    1000 * KeywordScale * Max(characteristics.total_blocks, 1)

\* the four composite scores of _classify_document_type (lines 292-314), as
\* numerators over ScoreDivisor; the weights are in thousandths
resume_score(ch) ==
    With(Max(ch.total_blocks, 1), LAMBDA n :
          ch.keywords.resume_keyword_score * (KeywordScale \div Cardinality(resume_keywords)) * 300 * n
        + (ch.structure.short_blocks * 6 + ch.structure.medium_blocks * 4) * 25 * KeywordScale
        + (ch.formatting.caps_blocks * 7 + ch.formatting.bold_blocks * 3) * 25 * KeywordScale
        + ch.metrics.is_short_document * 200 * KeywordScale * n)

academic_score(ch) ==
    With(Max(ch.total_blocks, 1), LAMBDA n :
          ch.keywords.academic_keyword_score * (KeywordScale \div Cardinality(academic_keywords)) * 400 * n
        + (ch.structure.long_blocks * 7 + ch.structure.medium_blocks * 3) * 30 * KeywordScale
        + ch.metrics.is_long_document * 300 * KeywordScale * n)

business_score(ch) ==
    With(Max(ch.total_blocks, 1), LAMBDA n :
          ch.keywords.business_keyword_score * (KeywordScale \div Cardinality(business_keywords)) * 500 * n
        + ch.metrics.is_medium_document * 300 * KeywordScale * n
        + ch.formatting.caps_blocks * 200 * KeywordScale)

manual_score(ch) ==
    With(Max(ch.total_blocks, 1), LAMBDA n :
          ch.keywords.manual_keyword_score * (KeywordScale \div Cardinality(manual_keywords)) * 600 * n
        + ch.metrics.is_long_document * 400 * KeywordScale * n)

\* the keys of the scores dictionary, in insertion order
HypothesisTypes == << RESUME, ACADEMIC_PAPER, BUSINESS_DOCUMENT, MANUAL >>

\* the scores dictionary (lines 317-322)
HypothesisScores(ch) ==
    << resume_score(ch), academic_score(ch), business_score(ch), manual_score(ch) >>

\* best_type[1] < 0.3
BelowMinimumConfidence(score, characteristics) ==
    10 * score < 3 * ScoreDivisor(characteristics)

\* the classification that resets the confidence of an unknown document
classify_document_type_ResetConfidence(characteristics) ==
    With(HypothesisScores(characteristics), LAMBDA scores :
        { IF BelowMinimumConfidence(scores[i], characteristics)
          THEN [document_type |-> UNKNOWN, confidence |-> 0]
          ELSE [document_type |-> HypothesisTypes[i], confidence |-> scores[i]]
          : i \in { k \in 1..4 : \A j \in 1..4 : scores[j] <= scores[k] } })

\* _classify_document_type: max(scores.items(), key=...) and the threshold.
\* The scores are doubles: two hypotheses whose exact scores differ keep
\* their order in doubles (they differ by at least 1 / ScoreDivisor), while
\* the rounding of the sums decides between hypotheses whose exact scores are
\* equal, so the result is one of the outcomes below; confidence is the
\* numerator of the score over ScoreDivisor
classify_document_type(characteristics) ==
    With(HypothesisScores(characteristics), LAMBDA scores :
        { IF BelowMinimumConfidence(scores[i], characteristics)
          THEN [document_type |-> UNKNOWN, confidence |-> scores[i]]
          ELSE [document_type |-> HypothesisTypes[i], confidence |-> scores[i]]
          : i \in { k \in 1..4 : \A j \in 1..4 : scores[j] <= scores[k] } })

\* _get_processing_strategy
get_processing_strategy(doc_type) ==
    IF doc_type = RESUME THEN "resume_optimized"
    ELSE IF doc_type = ACADEMIC_PAPER THEN "academic_optimized"
    ELSE IF doc_type = BUSINESS_DOCUMENT THEN "business_optimized"
    ELSE IF doc_type = MANUAL THEN "manual_optimized"
    ELSE "adaptive_balanced"

\* analyze_document_type: the DocumentAnalysis values it can return for the
\* blocks of a document; confidence is a numerator over ScoreDivisor, and
\* characteristics is <<>> for the empty dictionary
analyze_document_type(blocks) ==
    IF blocks = <<>>
    THEN { [document_type |-> UNKNOWN, confidence |-> 0, characteristics |-> <<>>,
            suggested_processing_strategy |-> "default"] }
    ELSE With(Characteristics(blocks), LAMBDA characteristics :
            { [document_type |-> c.document_type, confidence |-> c.confidence,
               characteristics |-> characteristics,
               suggested_processing_strategy |-> get_processing_strategy(c.document_type)]
              : c \in classify_document_type(characteristics) })

\* ------------------------------------------- calls of the document analyzer
MaxAnalyzedBlocks == 2

\* keyword-laden texts of 200 characters, one for each of the academic,
\* business and manual vocabularies
AcademicText ==
    <<"a", "b", "s", "t", "r", "a", "c", "t", " ", "i", "n", "t", "r", "o", "d", "u", "c", "t", "i", "o", "n", " ", "m", "e", "t", "h", "o", "d", "o", "l", "o", "g", "y", " ", "r", "e", "s", "u", "l", "t", "s", " ", "c", "o", "n", "c", "l", "u", "s", "i", "o", "n", " ", "r", "e", "f", "e", "r", "e", "n", "c", "e", "s", " ", "b", "i", "b", "l", "i", "o", "g", "r", "a", "p", "h", "y", " ", "l", "i", "t", "e", "r", "a", "t", "u", "r", "e">>
    \o <<" ">> \o [i \in 1..112 |-> "x"]

BusinessText ==
    <<"e", "x", "e", "c", "u", "t", "i", "v", "e", " ", "s", "u", "m", "m", "a", "r", "y", " ", "o", "v", "e", "r", "v", "i", "e", "w", " ", "p", "r", "o", "p", "o", "s", "a", "l", " ", "b", "u", "d", "g", "e", "t", " ", "r", "e", "v", "e", "n", "u", "e", " ", "p", "r", "o", "f", "i", "t", " ", "q", "u", "a", "r", "t", "e", "r", "l", "y", " ", "a", "n", "n", "u", "a", "l", " ", "s", "t", "r", "a", "t", "e", "g", "i", "c">>
    \o <<" ">> \o [i \in 1..115 |-> "x"]

ManualText ==
    <<"i", "n", "s", "t", "a", "l", "l", "a", "t", "i", "o", "n", " ", "c", "o", "n", "f", "i", "g", "u", "r", "a", "t", "i", "o", "n", " ", "s", "e", "t", "u", "p", " ", "t", "r", "o", "u", "b", "l", "e", "s", "h", "o", "o", "t", "i", "n", "g", " ", "c", "h", "a", "p", "t", "e", "r", " ", "s", "e", "c", "t", "i", "o", "n", " ", "p", "r", "o", "c", "e", "d", "u", "r", "e", " ", "s", "t", "e", "p", "s">>
    \o <<" ">> \o [i \in 1..119 |-> "x"]

\* the text "a a a ... " of the given number of words
WordsText(n) == AsTuple([i \in 1..(2 * n) |-> IF i % 2 = 1 THEN "a" ELSE " "])

\* the blocks of an analysed document: a section title in capitals; a bold
\* heading of the resume vocabulary; a list; a paragraph; blocks of 60 and of
\* 200 characters; the three keyword-laden texts; blank text; and a text of
\* 2500 words, so that one such block makes a medium document and two make
\* a long one
AnalyzedBlockPool ==
    { TextBlock(<<"S", "K", "I", "L", "L", "S">>, <<>>),
      Heading(2, <<"W", "o", "r", "k", " ", "E", "x", "p", "e", "r", "i", "e", "n", "c", "e">>, <<140>>, TRUE),
      ListBlock(UNORDERED),
      Paragraph(<< LineF(<<"a", "b", " ", "c">>, 100, 50, 12, <<120>>) >>, <<>>, <<120>>, FALSE, FALSE),
      TextBlock([i \in 1..60 |-> "y"], <<>>),
      TextBlock([i \in 1..200 |-> "x"], <<>>),
      TextBlock(AcademicText, <<>>),
      TextBlock(BusinessText, <<>>),
      TextBlock(ManualText, <<>>),
      TextBlock(<<" ", " ">>, <<>>),
      TextBlock(WordsText(2500), <<>>) }

AnalyzerInit ==
    /\ input \in { [blocks |-> blocks] : blocks \in SeqsUpTo(AnalyzedBlockPool, MaxAnalyzedBlocks) }
    /\ output = <<>>
    /\ ListIdle
    /\ BlockIdle
    /\ RenderIdle
    /\ DetectIdle
    /\ PipeIdle

\* analysis = analyzer.analyze_document_type(document)
AnalyzeDocumentType ==
    /\ output = <<>>
    /\ \E analysis \in analyze_document_type(input.blocks) :
         output' = [op |-> "analyze_document_type", result |-> analysis]
    /\ UNCHANGED input
    /\ UNCHANGED funOthers

\* recommendations = analyzer.get_processing_recommendations(analysis), read
\* at paragraph_detection.merge_aggressive
GetProcessingRecommendations ==
    /\ output # <<>>
    /\ output.op = "analyze_document_type"
    /\ output' = [op |-> "get_processing_recommendations", result |-> output.result,
                  merge_aggressive |-> merge_aggressive(output.result.document_type)]
    /\ UNCHANGED input
    /\ UNCHANGED funOthers

AnalyzerNext == AnalyzeDocumentType \/ GetProcessingRecommendations

SpecAnalyzer == AnalyzerInit /\ [][AnalyzerNext]_vars

\* ------------------------------------------------------------------- C20
\* a call of analyze_document_type has returned
AnalysisReturned == output # <<>> /\ output.op = "analyze_document_type"

\* the scores of the four hypotheses over the returned characteristics; a
\* document without blocks has no characteristics, and no hypothesis scores
\* above 0
ReturnedScores ==
    IF output.result.characteristics = <<>>
    THEN << 0, 0, 0, 0 >>
    ELSE HypothesisScores(output.result.characteristics)

\* the divisor of the returned scores and of the returned confidence
ReturnedDivisor ==
    IF output.result.characteristics = <<>>
    THEN 1000 * KeywordScale
    ELSE ScoreDivisor(output.result.characteristics)

\* the highest of the four scores
HighestScore ==
    CHOOSE best \in { ReturnedScores[i] : i \in 1..4 } : \A i \in 1..4 : ReturnedScores[i] <= best

\* C20: analyze_document_type returns a hypothesis with the highest of the
\* four scores, and that score as confidence, when the score is at least 0.3;
\* when the highest score is below 0.3 it returns UNKNOWN, and the confidence
\* is still that highest score
C20_HighestScoreOrUnknown ==
    AnalysisReturned =>
        IF 10 * HighestScore >= 3 * ReturnedDivisor
        THEN /\ \E i \in 1..Len(HypothesisTypes) :
                  /\ output.result.document_type = HypothesisTypes[i]
                  /\ ReturnedScores[i] = HighestScore
             /\ output.result.confidence = HighestScore
        ELSE /\ output.result.document_type = UNKNOWN
             /\ output.result.confidence = HighestScore

\* a document with blocks whose best hypothesis stays below 0.3: it is
\* UNKNOWN and keeps a confidence above 0
C20_Witness ==
    /\ AnalysisReturned
    /\ input.blocks # <<>>
    /\ output.result.document_type = UNKNOWN
    /\ output.result.confidence > 0
    /\ 10 * output.result.confidence < 3 * ReturnedDivisor

\* ------------------------------------------------------- calls on two Lines
\* the vertical positions (tops) and the heights of the lines
LineYPool == {70, 85, 100}
LineHeightPool == {0, 10, 12, 20}

LinePairPool ==
    { [a |-> Line(<<"a">>, ya, 50, ha), b |-> Line(<<"b">>, yb, 50, hb)]
      : ya \in LineYPool, yb \in LineYPool, ha \in LineHeightPool, hb \in LineHeightPool }

LineInit ==
    /\ input \in LinePairPool
    /\ output = <<>>
    /\ ListIdle
    /\ BlockIdle
    /\ RenderIdle
    /\ DetectIdle
    /\ PipeIdle

\* spacing = a.vertical_spacing_to(b)
VerticalSpacingTo ==
    /\ output = <<>>
    /\ output' = [op |-> "vertical_spacing_to", result |-> vertical_spacing_to(input.a, input.b)]
    /\ UNCHANGED input
    /\ UNCHANGED funOthers

LineNext == VerticalSpacingTo

SpecLine == LineInit /\ [][LineNext]_vars

\* ------------------------------------------------------------------- C21
\* a.vertical_spacing_to(b) has returned for a line a above a line b
SpacingReturned ==
    /\ output # <<>>
    /\ output.op = "vertical_spacing_to"
    /\ input.a.y_position > input.b.y_position

\* C21: for a line a above a line b, a.vertical_spacing_to(b) is the gap
\* between the bottom edge of a and the top edge of b,
\* a.y_position - a.height - b.y_position, whatever the two heights
C21_SpacingIsGap ==
    SpacingReturned =>
        output.result = input.a.y_position - input.a.height - input.b.y_position

\* ------------------------------------------------------------------- C22
\* the Headings of a state of the heading detector's calls: the block given,
\* the Heading constructed, the block the detection loop added
HeadingsAtHand ==
    { b \in { input.block }
             \cup (IF output # <<>> /\ output.op = "Heading" /\ output.result # <<>>
                   THEN { output.result[1] } ELSE {})
             \cup (IF output # <<>> /\ output.op = "detect_headings_in_document"
                   THEN { output.result } ELSE {})
      : b.kind = "Heading" }

\* C22: constructing a Heading with a level outside 1..6 raises ValueError
\* and leaves no Heading, so every Heading there is, the ones the heading
\* detector creates included, has a level from 1 to 6
C22_HeadingLevelsValid ==
    /\ (output # <<>> /\ output.op = "Heading" /\ output.level \notin 1..6)
          => (output.error = ValueError /\ output.result = <<>>)
    /\ \A b \in HeadingsAtHand : b.level \in 1..6

\* a construction with level 0 or level 7 has failed
C22_Witness ==
    /\ output # <<>>
    /\ output.op = "Heading"
    /\ output.level \in {0, 7}
    /\ ~IsBlank(Block_content(input.block))
    /\ output.error = ValueError

CodeBlock_content(code_block) ==
    Join([i \in 1..Len(code_block.lines) |-> code_block.lines[i].text], <<"\n">>)

\* code_block_texts: the stripped content of every code block and its
\* stripped lines that are not blank
code_block_texts(code_blocks) ==
    UNION { { Strip(CodeBlock_content(code_blocks[i])) }
            \cup { Strip(code_blocks[i].lines[j].text) :
                     j \in { k \in 1..Len(code_blocks[i].lines) :
                               ~IsBlank(code_blocks[i].lines[k].text) } }
            : i \in 1..Len(code_blocks) }

\* is_code_content
is_code_content(b, texts) ==
    With(block_text(b), LAMBDA text :
        \E clean_text \in texts : Contains(text, clean_text) \/ Contains(clean_text, text))

\* _integrate_code_blocks_into_document: the blocks of target_document
\* become the source blocks that are not code content, then the code blocks
integrate_code_blocks_into_document(h0, target_document, source_document, code_blocks) ==
    With(h0, LAMBDA h : With(code_block_texts(Deref(h, code_blocks)), LAMBDA texts :
        [h EXCEPT ![target_document].blocks =
            h[target_document].blocks
            \o SelectSeq(h[source_document].blocks, LAMBDA id : ~is_code_content(h[id], texts))
            \o code_blocks]))

\* -------------------------------------- calls of the integration methods
MaxSourceBlocks == 2
MaxDetectedBlocks == 1

BulletItem(content) == ListItem(content, 0, ListMarker(UNORDERED, <<"-">>, <<>>, <<" ">>), <<>>)

ListBlockOf(items) ==
    [kind |-> "ListBlock", list_type |-> UNORDERED, items |-> items, nested_lists |-> <<>>]

\* the blocks of the source document: text that is a detected item or code
\* line, text that holds one and more, text apart from both, blank text, a
\* paragraph, a heading, and a list block that an earlier step put there
SourceBlockPool ==
    { TextBlock(<<"a">>, <<>>),
      TextBlock(<<"x", " ", "=", " ", "1">>, <<>>),
      TextBlock(<<"a", "b", " ", "c">>, <<>>),
      TextBlock(<<"z", "z">>, <<>>),
      TextBlock(<<" ", " ">>, <<>>),
      Paragraph(<< PlainLine(<<"z", "z">>), PlainLine(<<"a">>) >>, <<>>, <<>>, FALSE, FALSE),
      Heading(1, <<"H">>, <<>>, FALSE),
      ListBlockOf(<< BulletItem(<<"i", "t", "e", "m">>) >>) }

DetectedListBlockPool ==
    { ListBlockOf(<< BulletItem(<<"a">>) >>),
      ListBlockOf(<< BulletItem(<<"a", "b", " ", "c">>), BulletItem(<<"H", " ", "2">>) >>) }

DetectedCodeBlockPool ==
    { CodeBlock(<< PlainLine(<<"x", " ", "=", " ", "1">>) >>, UNKNOWN_LANGUAGE, <<>>),
      CodeBlock(<< PlainLine(<<"a", "b", " ", "c">>), PlainLine(<<" ">>), PlainLine(<<"y">>) >>,
                UNKNOWN_LANGUAGE, <<>>) }

IntegrationInit ==
    /\ input \in { [blocks |-> blocks, detected |-> detected] :
                     blocks \in SeqsUpTo(SourceBlockPool, MaxSourceBlocks),
                     detected \in SeqsUpTo(DetectedListBlockPool, MaxDetectedBlocks)
                                  \cup SeqsUpTo(DetectedCodeBlockPool, MaxDetectedBlocks) }
    /\ output = <<>>
    /\ ListIdle
    /\ BlockIdle
    /\ RenderIdle
    /\ DetectIdle
    /\ PipeIdle

\* the objects of a call: the source blocks, the detected blocks, the source
\* document and the empty target document
IntegrationHeap ==
    input.blocks \o input.detected
    \o << Document(<<>>, [i \in 1..Len(input.blocks) |-> i], <<>>), Document(<<>>, <<>>, <<>>) >>

SourceDocument == Len(input.blocks) + Len(input.detected) + 1
TargetDocument == Len(input.blocks) + Len(input.detected) + 2
DetectedIds == [i \in 1..Len(input.detected) |-> Len(input.blocks) + i]

\* cli._integrate_list_blocks_into_document(target, source, list_blocks)
IntegrateListBlocks ==
    /\ output = <<>>
    /\ \A i \in 1..Len(input.detected) : input.detected[i].kind = "ListBlock"
    /\ \E h \in { integrate_list_blocks_into_document(IntegrationHeap, TargetDocument,
                                                      SourceDocument, DetectedIds) } :
         output' = [op |-> "integrate_list_blocks_into_document", heap |-> h,
                    result |-> h[TargetDocument].blocks]
    /\ UNCHANGED input
    /\ UNCHANGED funOthers

\* cli._integrate_code_blocks_into_document(target, source, code_blocks)
IntegrateCodeBlocks ==
    /\ output = <<>>
    /\ \A i \in 1..Len(input.detected) : input.detected[i].kind = "CodeBlock"
    /\ \E h \in { integrate_code_blocks_into_document(IntegrationHeap, TargetDocument,
                                                      SourceDocument, DetectedIds) } :
         output' = [op |-> "integrate_code_blocks_into_document", heap |-> h,
                    result |-> h[TargetDocument].blocks]
    /\ UNCHANGED input
    /\ UNCHANGED funOthers

IntegrationNext == IntegrateListBlocks \/ IntegrateCodeBlocks

SpecIntegration == IntegrationInit /\ [][IntegrationNext]_vars

\* ------------------------------------------------------------- C24, C25
\* the source block i is a block of the target document
InTarget(i) == \E k \in 1..Len(output.result) : output.result[k] = i

\* the block has a text, and the text and a text of the detected blocks
\* hold one another
TextMatches(b, texts) ==
    /\ b.kind \in {"TextBlock", "Heading", "Paragraph"}
    /\ \E clean_text \in texts :
         Contains(block_text(b), clean_text) \/ Contains(clean_text, block_text(b))

\* C24: after _integrate_code_blocks_into_document every source block whose
\* text matches no code-block text is a block of the target document; a
\* ListBlock, which has no text to match, always is
C24_NonCodeBlocksKept ==
    (output # <<>> /\ output.op = "integrate_code_blocks_into_document") =>
        \A i \in 1..Len(input.blocks) :
            ~TextMatches(input.blocks[i], code_block_texts(input.detected)) => InTarget(i)

\* every word of the text is part of the content of some detected list item
CoveredByItems(text, texts) ==
    \A k \in 1..Len(Words(text)) : \E clean_text \in texts : Contains(clean_text, Words(text)[k])

\* C25: after _integrate_list_blocks_into_document every source block that
\* is left out of the target document has a text that the contents of the
\* detected list items cover entirely
C25_OnlyListTextRemoved ==
    (output # <<>> /\ output.op = "integrate_list_blocks_into_document") =>
        \A i \in 1..Len(input.blocks) :
            ~InTarget(i) => CoveredByItems(block_text(input.blocks[i]),
                                           list_item_texts(input.detected))

\* ------------------------------ calls of group_list_items_into_blocks
\* valid list items of both list types at the levels 0, 1 and 3 (a level
\* gap above 2 is 0 against 3), with two contents at level 0
GroupItemPool ==
    { ListItem(<<"a">>, level, m, <<>>) :
        level \in {0, 1, 3},
        m \in { ListMarker(ORDERED, <<"1">>, <<>>, <<".", " ">>),
                ListMarker(UNORDERED, <<"-">>, <<>>, <<" ">>) } }
    \cup { ListItem(<<"b">>, 0, m, <<>>) :
        m \in { ListMarker(ORDERED, <<"2">>, <<>>, <<".", " ">>),
                ListMarker(UNORDERED, <<"*">>, <<>>, <<" ">>) } }

GroupInit ==
    /\ input \in { [list_items |-> items] : items \in SeqsUpTo(GroupItemPool, MaxItems) }
    /\ output = <<>>
    /\ ListIdle
    /\ BlockIdle
    /\ RenderIdle
    /\ DetectIdle
    /\ PipeIdle

\* detector.group_list_items_into_blocks(list_items)
GroupListItemsOf ==
    /\ output = <<>>
    /\ \E r \in { group_list_items_into_blocks(input.list_items) } :
         output' = [op |-> "group_list_items_into_blocks", error |-> r.error,
                    result |-> r.blocks]
    /\ UNCHANGED input
    /\ UNCHANGED funOthers

GroupNext == GroupListItemsOf

SpecGroup == GroupInit /\ [][GroupNext]_vars

\* ------------------------------------------------------------------ C26
GroupingReturned == output # <<>> /\ output.op = "group_list_items_into_blocks"

\* the items of the returned blocks, block after block
GroupedItems == FlattenSeq([i \in 1..Len(output.result) |-> output.result[i].items])

\* C26: group_list_items_into_blocks returns without error for every
\* sequence of valid ListItems; no returned block is empty, and the items
\* of the returned blocks, concatenated in order, are exactly the input
\* sequence
C26_GroupingPartitions ==
    GroupingReturned =>
        /\ output.error = NoError
        /\ \A i \in 1..Len(output.result) : output.result[i].items # <<>>
        /\ GroupedItems = input.list_items

\* three items of one list type in two blocks, split by the level gap 0 to 3
C26_Witness ==
    /\ GroupingReturned
    /\ Len(input.list_items) = 3
    /\ \A i \in 1..3 : input.list_items[i].marker.marker_type = ORDERED
    /\ Len(output.result) = 2
    /\ Len(output.result[1].items) = 2
    /\ output.result[1].items[2].level = 0
    /\ output.result[2].items[1].level = 3

\* ------------------- calls of the heading detector on documents, repeated
HeadingDocumentNext == DetectHeadingsInDocument

SpecHeadingDocument == DetectInit /\ [][HeadingDocumentNext]_vars

\* ------------------------------------------------------------------ C27
\* C27: a call of detect_headings_in_document returns a document with as
\* many blocks as the input document, in the same order: block i of the
\* result is block i of the input, the same object with unchanged fields,
\* or a new Heading whose content is the content of block i of the input;
\* a block that is neither a TextBlock nor a Paragraph, or that has no font
\* size, is passed through; also when the input is a document that an
\* earlier call returned
C27_HeadingDetectionKeepsSequence ==
    [][ (last_call'.seq # last_call.seq /\ last_call'.op = "detect_headings_in_document") =>
          LET in  == heap[last_call'.args[1]].blocks
              out == heap'[last_call'.result[1]].blocks
          IN  /\ Len(out) = Len(in)
              /\ \A i \in 1..Len(in) :
                   \/ out[i] = in[i] /\ heap'[in[i]] = heap[in[i]]
                   \/ /\ out[i] > Len(heap)
                      /\ heap'[out[i]].kind = "Heading"
                      /\ heap'[out[i]].content = Block_content(heap[in[i]])
                      /\ heap[in[i]].kind \in {"TextBlock", "Paragraph"}
                      /\ heap[in[i]].font_size # <<>>
    ]_vars

\* a call on a document of two blocks that replaced one by a Heading and
\* passed a block without font size through
C27_Witness ==
    /\ last_call.op = "detect_headings_in_document"
    /\ LET in  == heap[last_call.args[1]].blocks
           out == heap[last_call.result[1]].blocks
       IN  /\ Len(in) = 2
           /\ Len(out) = 2
           /\ \E i, j \in 1..2 :
                /\ out[i] # in[i]
                /\ heap[out[i]].kind = "Heading"
                /\ out[j] = in[j]
                /\ heap[in[j]].font_size = <<>>

\* ------------------------------------------------------------------ C28
\* C28: when the recommendations for the analysed document set
\* merge_aggressive (an academic paper), paragraph detection has run with
\* the merging of adjacent paragraphs enabled, which in the paragraph
\* detector is content_aware_merging (merge_continuous_paragraphs returns
\* its argument unmerged without it)
C28_AggressiveMergingEnabled ==
    (/\ frame.document_type # <<>>
     /\ merge_aggressive(frame.document_type[1])
     /\ frame.document_with_paragraphs # <<>>) => content_aware_merging

\* ---------------- calls of the paragraph detector on multi-line text
\* text of one line, a continuation of it, text of three lines with a blank
\* line and an indented line, a continuation of two lines that ends with a
\* line break, blank text with and without a line break, and a heading
ParaTextPool ==
    { TextBlock(<<"a", "b", " ", "c">>, <<120>>),
      TextBlock(<<"a", "n", "d", " ", "d">>, <<120>>),
      TextBlock(<<"x", "\n", " ", "\n", " ", " ", "y">>, <<120>>),
      TextBlock(<<"a", "n", "d", " ", "e", "\n", "f", "\n">>, <<120>>),
      TextBlock(<<" ", " ">>, <<120>>),
      TextBlock(<<" ", "\n">>, <<>>),
      Heading(1, <<"H">>, <<>>, FALSE) }

ParaTextInit ==
    /\ input \in { [blocks |-> blocks, content_aware_merging |-> content_aware] :
                     blocks \in SeqsUpTo(ParaTextPool, MaxParaBlocks),
                     content_aware \in BOOLEAN }
    /\ output = <<>>
    /\ ListIdle
    /\ BlockIdle
    /\ RenderIdle
    /\ DetectIdle
    /\ PipeIdle

ParaTextNext == DetectParagraphsOfBlocks

SpecParagraphText == ParaTextInit /\ [][ParaTextNext]_vars

\* ------------------------------------------------------------------ C29
\* the lines of a content that are not blank, in order
NonBlankLines(content) == SelectSeq(SplitLines(content), LAMBDA l : ~IsBlank(l))

\* the non-blank lines of the TextBlocks of the run after k barriers
RunLines(k) ==
    FlattenSeq([i \in 1..Len(input.blocks) |->
                  IF input.blocks[i].kind = "TextBlock" /\ BarriersBeforeIn(i) = k
                  THEN NonBlankLines(input.blocks[i].content) ELSE <<>>])

\* C29: for every run of consecutive TextBlocks of the input document, the
\* texts of the lines of the Paragraphs that detect_paragraphs_in_document
\* returns for the run, in output order, are the non-blank lines of the
\* TextBlocks of the run, in input order, with and without merging
C29_TextPreserved ==
    ParagraphsReturned => \A k \in 0..Len(input.blocks) : OutTexts(k) = RunLines(k)

\* a run of two TextBlocks, one with a blank line inside, merged into one
\* Paragraph of three lines
C29_Witness ==
    /\ ParagraphsReturned
    /\ input.content_aware_merging
    /\ Len(input.blocks) >= 2
    /\ input.blocks[1].kind = "TextBlock"
    /\ input.blocks[2].kind = "TextBlock"
    /\ Len(SplitLines(input.blocks[1].content)) = 3
    /\ Len(NonBlankLines(input.blocks[1].content)) = 2
    /\ Len(NonBlankLines(input.blocks[2].content)) >= 1
    /\ ~IsInputBlock(OutBlocks[1])
    /\ Len(output.heap[OutBlocks[1]].lines) >= 3

\* ------------------------------------------------------------------ C30
\* the calls _determine_heading_level(block, baseline_font_size) of the pool
\* that return the level
CallsReturning(level) ==
    { c \in [block : HeadingBlockPool, baseline_font_size : BaselinePool] :
        determine_heading_level(c.block, c.baseline_font_size) = level }

\* C30: for every level from 1 to 6 there is a block and a baseline font
\* size for which _determine_heading_level returns the level: a level that
\* the call at hand did not return is returned by another call.  No call
\* returns 5: below a ratio of 1.3 the font size adds less than 0.6 and
\* bold alone 0.5, so a score of 1.5 needs the ALL-CAPS bonus, which gives
\* level 4.
C30_EveryLevelAttainable ==
    \A level \in 1..6 :
        (HeadingLevelReturned /\ output.result # level) => CallsReturning(level) # {}
====
